---- MODULE Spec2Model ----
(***************************************************************************)
(* Model of the WNBA prop pipeline: the projection batch of                *)
(* props_model.py and the suggestion batch of run_wnba_daily.py.           *)
(*                                                                         *)
(* Floats are modelled as exact rationals plus the IEEE value NaN.         *)
(* A cell of an input table is a tagged value: a number, a text that does  *)
(* not parse as a number, an empty string, Python None (absent key) or the *)
(* NaN that a blank sheet cell is read as.                                 *)
(***************************************************************************)
EXTENDS Integers, Sequences, FiniteSets, TLC

VARIABLES
    lines,      \* props_model: the records of the lines tab, in sheet order
    i,          \* props_model: position of the batch loop (1-based)
    rows,       \* props_model: the rows list
    frame,      \* props_model: result and locals of the last project_row call
    pc,         \* props_model: "loop" while the batch runs, "done" after to_csv
    opp_tab,    \* props_model: opp, the opponent_per100_last6 tab by TEAM_NAME
    pace_tab,   \* props_model: pace, the pace_last6 tab (PACE cell by TEAM_NAME)
    mu_opp,     \* props_model: mu, the mean of each numeric column of opp
    sd_opp,     \* props_model: sd, their deviations with 0 replaced by NaN
    props_league_pace,  \* props_model: league_pace
    lines_df,   \* run_wnba_daily: the records of the pasted lines
    df_opp_all, \* run_wnba_daily: opponent allowances per 100, by team
    df_pace,    \* run_wnba_daily: PACE by team (rows without PACE dropped)
    df_ff_all,  \* run_wnba_daily: opponent eFG% allowed, by team
    league_means_opp,   \* run_wnba_daily: column means of opp_gen
    league_stds_opp,    \* run_wnba_daily: column deviations, 0 replaced by NaN
    league_pace,        \* run_wnba_daily: mean PACE of df_pace
    si,         \* run_wnba_daily: position in the list of records (1-based)
    sugg,       \* run_wnba_daily: the suggestion rows built so far
    sframe,     \* run_wnba_daily: result and locals of the last scoring call
    spc,        \* run_wnba_daily: "score", then "done" (table written),
                \* "skipped" (no lines) or "crashed" (uncaught exception);
                \* "apply"/"applied" when the scoring functions are called
                \* on their own
    train,      \* roles: size of the training table and configured counts
    bundle,     \* roles: the fitted bundles (k and feature list) per side
    f10,        \* roles: the feature table given to prediction
    pred,       \* roles: what the two predict functions returned
    lab,        \* roles: what label_offense and label_defense returned
    rep,        \* roles: the table make_report returned
    rpc,        \* roles: "fit", "predict", "label", "report", "done" or
                \* "crashed"
    logs,       \* features: the rows of player_game_log, in sheet order
    win,        \* features: the window width w
    out,        \* features: the table last(logs, w) returned
    fpc,        \* features: "build", then "done"
    retry,      \* with_retries: the wrapped call's outcomes and the loop state
    req,        \* _request_json: the responses to come and the loop state
    load        \* input loading: the tabs of the sheet and how loading ended

refVars == <<opp_tab, pace_tab, mu_opp, sd_opp, props_league_pace>>
projVars == <<lines, i, rows, frame, pc, refVars>>
tabVars == <<df_opp_all, df_pace, df_ff_all, league_means_opp, league_stds_opp, league_pace>>
suggVars == <<lines_df, tabVars, si, sugg, sframe, spc>>
roleVars == <<train, bundle, f10, pred, lab, rep, rpc>>
featVars == <<logs, win, out, fpc>>
ioVars == <<retry, req, load>>
otherVars == <<roleVars, featVars, ioVars>>
vars == <<projVars, suggVars, otherVars>>

----------------------------------------------------------------------------
(* Bounds of the model *)

MaxLines == 2
MaxSuggLines == 2
MaxCount == 4

----------------------------------------------------------------------------
(* Float arithmetic *)

Abs(x) == IF x < 0 THEN -x ELSE x

RECURSIVE GCD(_, _)
GCD(a, b) == IF b = 0 THEN a ELSE GCD(b, a % b)

\* a rational n/d (d > 0) in lowest terms
Rat(n, d) ==
    LET g == GCD(Abs(n), Abs(d))
        s == IF d < 0 THEN -1 ELSE 1
    IN [nan |-> FALSE, n |-> s * (n \div g), d |-> s * (d \div g)]

NaN == [nan |-> TRUE, n |-> 0, d |-> 1]

\* the numerators of x and y over their least common denominator
OverCommon(x, y) ==
    LET g == GCD(x.d, y.d)
    IN [xn |-> x.n * (y.d \div g), yn |-> y.n * (x.d \div g), d |-> (x.d \div g) * y.d]

FSub(x, y) ==
    IF x.nan \/ y.nan THEN NaN
    ELSE LET c == OverCommon(x, y) IN Rat(c.xn - c.yn, c.d)

\* x >= y on floats: False as soon as one side is NaN
FGe(x, y) == ~x.nan /\ ~y.nan /\ OverCommon(x, y).xn >= OverCommon(x, y).yn

FGt(x, y) == ~x.nan /\ ~y.nan /\ OverCommon(x, y).xn > OverCommon(x, y).yn

One == Rat(1, 1)

FAdd(x, y) ==
    IF x.nan \/ y.nan THEN NaN
    ELSE LET c == OverCommon(x, y) IN Rat(c.xn + c.yn, c.d)

\* x * y, cancelling across the two fractions first
FMul(x, y) ==
    IF x.nan \/ y.nan THEN NaN
    ELSE LET g1 == GCD(Abs(x.n), y.d)
             g2 == GCD(Abs(y.n), x.d)
         IN Rat((x.n \div g1) * (y.n \div g2), (x.d \div g2) * (y.d \div g1))

\* x / y for y # 0 (0/0 and x/NaN are NaN)
FDiv(x, y) ==
    IF x.nan \/ y.nan \/ y.n = 0 THEN NaN
    ELSE FMul(x, IF y.n < 0 THEN [nan |-> FALSE, n |-> -y.d, d |-> -y.n]
                 ELSE [nan |-> FALSE, n |-> y.d, d |-> y.n])

\* Python round(x, nd): nearest multiple of 1/scale (scale = 10^nd), ties to even
RoundTo(x, scale) ==
    IF x.nan THEN NaN
    ELSE LET g == GCD(scale, x.d)
             m == x.n * (scale \div g)
             d == x.d \div g
             q == m \div d
             r == m % d
             k == IF 2 * r > d THEN q + 1
                  ELSE IF 2 * r < d THEN q
                  ELSE IF q % 2 = 0 THEN q ELSE q + 1
         IN Rat(k, scale)

Round4(x) == RoundTo(x, 10000)
Round3(x) == RoundTo(x, 1000)
Round2(x) == RoundTo(x, 100)

Zero == Rat(0, 1)

\* max(b, a): a only when a > b, so a NaN in b is returned
PyMaxRawFirst(a, b) == IF FGt(a, b) THEN a ELSE b

\* Python max(a, b): b only when b > a, so a NaN second argument is dropped
PyMax(a, b) == IF FGt(b, a) THEN b ELSE a

\* the largest k in lo..hi with k * k <= m (lo * lo <= m)
RECURSIVE ISqrtIn(_, _, _)
ISqrtIn(m, lo, hi) ==
    IF lo >= hi THEN lo
    ELSE LET mid == (lo + hi + 1) \div 2
         IN IF mid * mid <= m THEN ISqrtIn(m, mid, hi) ELSE ISqrtIn(m, lo, mid - 1)

\* sqrt on floats, to the hundredth (exact on the squares of hundredths)
Sqrt(x) ==
    IF x.nan \/ x.n < 0 THEN NaN
    ELSE Rat(ISqrtIn(x.n * x.d * 10000, 0, 40000), x.d * 100)

\* sum of a table of floats
RECURSIVE FSum(_)
FSum(f) ==
    IF DOMAIN f = {} THEN Zero
    ELSE LET k == CHOOSE k \in DOMAIN f : TRUE
         IN FAdd(f[k], FSum([j \in (DOMAIN f) \ {k} |-> f[j]]))

\* pandas Series.mean(): the mean of the cells that hold a number, NaN if none
SeriesMean(f) ==
    LET nums == [k \in {j \in DOMAIN f : ~f[j].nan} |-> f[k]]
    IN IF DOMAIN nums = {} THEN NaN
       ELSE FDiv(FSum(nums), Rat(Cardinality(DOMAIN nums), 1))

\* pandas Series.std(): sample deviation (ddof = 1) of the cells that hold a
\* number, NaN with fewer than two of them
SeriesStd(f) ==
    LET nums == [k \in {j \in DOMAIN f : ~f[j].nan} |-> f[k]]
        n    == Cardinality(DOMAIN nums)
        m    == SeriesMean(f)
        sq   == [k \in DOMAIN nums |-> FMul(FSub(nums[k], m), FSub(nums[k], m))]
    IN IF n < 2 THEN NaN ELSE Sqrt(FDiv(FSum(sq), Rat(n - 1, 1)))

----------------------------------------------------------------------------
(* Cells of the input tables *)

Num(v)  == [t |-> "num",   v |-> v]
Text    == [t |-> "text",  v |-> 0]
Empty   == [t |-> "empty", v |-> 0]
None    == [t |-> "none",  v |-> 0]
Blank   == [t |-> "nan",   v |-> 0]

\* try: line = float(r.get("line"))  except: line = np.nan
\* (the number, held in half points, or NaN on any failure; never raises)
ParseLine(c) == IF c.t = "num" THEN Rat(c.v, 2) ELSE NaN

\* str(x).strip().lower() on the prop texts of the model
StripLower(s) ==
    CASE s = "PTS "     -> "pts"
      [] s = " Threes"  -> "threes"
      [] OTHER          -> s

\* str.lower() on the player names of the model
Lower(s) ==
    CASE s = "A. Wilson"  -> "a. wilson"
      [] s = "C. Gray"    -> "c. gray"
      [] s = "Rookie"     -> "rookie"
      [] s = "K. Plum"    -> "k. plum"
      [] s = "S. Ionescu" -> "s. ionescu"
      [] OTHER           -> s

----------------------------------------------------------------------------
(* props_model.py: reference data *)

\* a numeric cell as a float: the number, NaN for a blank (or coerced) cell
CellFloat(c) == IF c.t = "num" THEN Rat(c.v, 1) ELSE NaN

\* the columns of the opponent table
Columns(tab) == IF DOMAIN tab = {} THEN {} ELSE DOMAIN tab[CHOOSE t \in DOMAIN tab : TRUE]

\* num = opp.select_dtypes(include=[float, int]): the columns that hold
\* numbers and blanks only
NumCols(tab) ==
    {c \in Columns(tab) : \A t \in DOMAIN tab : tab[t][c].t \in {"num", "nan"}}

\* a column as floats (text coerced to NaN)
Column(tab, c) == [t \in DOMAIN tab |-> CellFloat(tab[t][c])]

\* the column means: num.mean(numeric_only=True)
ColumnMeans(tab, cols) == [c \in cols |-> SeriesMean(Column(tab, c))]

\* the column deviations: num.std(numeric_only=True).replace(0, np.nan)
ColumnStds(tab, cols) ==
    [c \in cols |->
        LET s == SeriesStd(Column(tab, c)) IN IF ~s.nan /\ s.n = 0 THEN NaN ELSE s]

\* float(df_pace["PACE"].mean()) if not df_pace.empty else np.nan
PaceMean(f) == IF DOMAIN f = {} THEN NaN ELSE SeriesMean(f)

\* z(team, col) of props_model: raises on a team or a column the tables lack
\* and on a text cell
props_z(team, col) ==
    IF team \notin DOMAIN opp_tab \/ col \notin DOMAIN mu_opp
    THEN [raise |-> TRUE, val |-> NaN]
    ELSE LET v == CellFloat(opp_tab[team][col])
         IN [raise |-> FALSE,
             val |-> FDiv(FSub(v, mu_opp[col]),
                          IF ~sd_opp[col].nan THEN sd_opp[col] ELSE One)]

\* _z(c) inside project_row: try: return z(oppn, c)  except: return 0.0
props_z_or_zero(oppn, c) ==
    LET r == props_z(oppn, c) IN IF r.raise THEN Zero ELSE r.val

\* df_pace of props_model: PACE coerced to numbers, rows with a blank PACE kept
props_df_pace == [t \in DOMAIN pace_tab |-> CellFloat(pace_tab[t])]

\* pace_factor(team, opp_name) of props_model: (pf, gp)
pace_factor(team, opp_name) ==
    LET tp == IF team \in DOMAIN props_df_pace THEN props_df_pace[team] ELSE NaN
        op == IF opp_name \in DOMAIN props_df_pace THEN props_df_pace[opp_name] ELSE NaN
        gp == IF tp.nan /\ ~op.nan THEN op
              ELSE IF op.nan /\ ~tp.nan THEN tp
              ELSE IF ~(tp.nan \/ op.nan) THEN FDiv(FAdd(tp, op), Rat(2, 1))
              ELSE NaN
        lp == props_league_pace
        pf == IF (lp.nan \/ lp.n # 0) /\ ~gp.nan /\ FGt(lp, Zero)
              THEN FDiv(gp, lp) ELSE One
    IN [pf |-> pf, gp |-> gp]

BaseFields ==
    {"position", "min_mean", "usage_pct", "3p_ar", "ft_rate", "reb_rate",
     "ast_rate", "stl_rate", "tov_rate"}

\* a row of players_baseline; minutes and rates are held in thousandths
BaseRow(position, min_mean, usage_pct, ar3, ft_rate, reb_rate, ast_rate, stl_rate, tov_rate) ==
    [f \in BaseFields |->
        CASE f = "position"  -> position
          [] f = "min_mean"  -> min_mean
          [] f = "usage_pct" -> usage_pct
          [] f = "3p_ar"     -> ar3
          [] f = "ft_rate"   -> ft_rate
          [] f = "reb_rate"  -> reb_rate
          [] f = "ast_rate"  -> ast_rate
          [] f = "stl_rate"  -> stl_rate
          [] f = "tov_rate"  -> tov_rate]

\* players_baseline keyed by lower-cased player: a full row, a row whose
\* position cell is blank, a row whose minutes and rates are blank, and a
\* high-volume shooter with an empty position
BASE ==
    [k \in {"a. wilson", "c. gray", "k. plum", "s. ionescu"} |->
        CASE k = "a. wilson"  ->
                BaseRow(Text, Num(34000), Num(300), Num(200), Num(300), Num(200),
                        Num(100), Num(30), Num(100))
          [] k = "c. gray"    ->
                BaseRow(Blank, Num(30000), Num(220), Num(320), Num(250), Num(140),
                        Num(180), Num(25), Num(120))
          [] k = "k. plum"    ->
                BaseRow(Text, Blank, Blank, Blank, Blank, Blank, Blank, Blank, Blank)
          [] k = "s. ionescu" ->
                BaseRow(Empty, Num(36000), Num(250), Num(900), Num(200), Num(100),
                        Num(200), Num(400), Num(500))]

\* ONOFF[(player, team)]["delta_per40"]: delta_per40 if present, else a tenth
\* of netrating_diff if present, else 0.0
OnOffRows ==
    [k \in {<<"k. plum", "Aces">>, <<"s. ionescu", "Liberty">>, <<"rookie", "Aces">>} |->
        CASE k = <<"k. plum", "Aces">>       -> [delta_per40 |-> Num(-40), netrating_diff |-> Blank]
          [] k = <<"s. ionescu", "Liberty">> -> [delta_per40 |-> Blank, netrating_diff |-> Num(20)]
          [] k = <<"rookie", "Aces">>        -> [delta_per40 |-> Blank, netrating_diff |-> Blank]]

ONOFF ==
    [k \in DOMAIN OnOffRows |->
        LET dp40 == OnOffRows[k].delta_per40
            nrd  == OnOffRows[k].netrating_diff
        IN IF dp40.t = "num" THEN Rat(dp40.v, 1)
           ELSE IF nrd.t = "num" THEN FMul(Rat(1, 10), Rat(nrd.v, 1))
           ELSE Zero]

\* REST[team]["minutes_scale"], in thousandths: blank, zero, negative, 1.1
REST ==
    [t \in {"Sky", "Wings", "Storm", "Liberty"} |->
        CASE t = "Sky"     -> [minutes_scale |-> Blank]
          [] t = "Wings"   -> [minutes_scale |-> Num(0)]
          [] t = "Storm"   -> [minutes_scale |-> Num(-1000)]
          [] t = "Liberty" -> [minutes_scale |-> Num(1100)]]

\* BASE.get(player.lower(), {}).get("position")
BasePosition(player) ==
    IF Lower(player) \in DOMAIN BASE THEN BASE[Lower(player)].position ELSE None

\* (b.get("position") or "").upper() raises AttributeError on a truthy non-string
PositionRaises(c) == c.t = "nan" \/ (c.t = "num" /\ c.v # 0)

----------------------------------------------------------------------------
(* props_model.py: odds *)

\* implied_prob(odds): float(odds) inside try, any failure gives NaN
implied_prob(c) ==
    IF c.t = "num"
    THEN IF c.v > 0 THEN Rat(100, c.v + 100) ELSE Rat(-c.v, (-c.v) + 100)
    ELSE NaN

\* the inline conversion with the two payout formulas exchanged
ImpliedInlineSwapped(c) ==
    IF c.t \in {"none", "empty"} THEN [raise |-> FALSE, val |-> Rat(1, 2)]
    ELSE IF c.t = "text" THEN [raise |-> TRUE, val |-> NaN]
    ELSE IF c.t = "nan" THEN [raise |-> FALSE, val |-> NaN]
    ELSE IF c.v > 0 THEN [raise |-> FALSE, val |-> Rat(c.v, c.v + 100)]
    ELSE [raise |-> FALSE, val |-> Rat(100, (-c.v) + 100)]

\* the inline conversion of project_row: 0.5 for None and "", float(odds) otherwise
\* (float of a non-numeric text raises, float of NaN is NaN and fails o > 0)
ImpliedInline(c) ==
    IF c.t \in {"none", "empty"} THEN [raise |-> FALSE, val |-> Rat(1, 2)]
    ELSE IF c.t = "text" THEN [raise |-> TRUE, val |-> NaN]
    ELSE IF c.t = "nan" THEN [raise |-> FALSE, val |-> NaN]
    ELSE IF c.v > 0 THEN [raise |-> FALSE, val |-> Rat(100, c.v + 100)]
    ELSE [raise |-> FALSE, val |-> Rat(-c.v, (-c.v) + 100)]

----------------------------------------------------------------------------
(* props_model.py: project_row *)

\* the prop branch of project_row; "none" is the final else (return None)
PropFamily(prop) ==
    IF prop \in {"points", "pts"} THEN "points"
    ELSE IF prop \in {"rebounds", "reb"} THEN "rebounds"
    ELSE IF prop \in {"assists", "ast"} THEN "assists"
    ELSE IF prop \in {"3pm", "3ptm", "3-pointers made", "3pt made", "threes", "3s"}
         THEN "threes"
    ELSE IF prop \in {"steals", "stl"} THEN "steals"
    ELSE IF prop \in {"turnovers", "tov"} THEN "turnovers"
    ELSE "none"

\* p_over: the survival function at the line; sf is the value the distribution
\* returns at a numeric line, and a NaN line gives NaN
POver(line, sf) == IF line.nan THEN NaN ELSE sf

\* best_side = "OVER" if edge_over >= edge_under else "UNDER"
BestSide(edge_over, edge_under) == IF FGe(edge_over, edge_under) THEN "OVER" ELSE "UNDER"

\* float(b.get(f)) if pd.notna(b.get(f)) else default, on a cell in thousandths:
\* an absent key and a blank cell give the default, float() of a text raises
BaseFloat(c, default) ==
    IF c.t \in {"none", "nan"} THEN [raise |-> FALSE, val |-> default]
    ELSE IF c.t = "num" THEN [raise |-> FALSE, val |-> Rat(c.v, 1000)]
    ELSE [raise |-> TRUE, val |-> NaN]

\* BASE.get(player.lower(), {}).get(f)
BaseCell(player, f) ==
    IF Lower(player) \in DOMAIN BASE THEN BASE[Lower(player)][f] ELSE None

\* float(REST.get(team, {}).get("minutes_scale", 1.0))
MinutesScale(team) ==
    IF team \notin DOMAIN REST THEN [raise |-> FALSE, val |-> One]
    ELSE LET c == REST[team].minutes_scale
         IN IF c.t = "num" THEN [raise |-> FALSE, val |-> Rat(c.v, 1000)]
            ELSE IF c.t = "nan" THEN [raise |-> FALSE, val |-> NaN]
            ELSE [raise |-> TRUE, val |-> NaN]

\* ONOFF.get((player.lower(), team), {}).get("delta_per40", 0.0)
DeltaPer40(player, team) ==
    IF <<Lower(player), team>> \in DOMAIN ONOFF THEN ONOFF[<<Lower(player), team>>] ELSE Zero

\* the hard floor of each prop branch
MeanFloor(family) ==
    CASE family = "points"    -> Rat(5, 1)
      [] family = "rebounds"  -> Rat(2, 1)
      [] family = "assists"   -> Rat(1, 1)
      [] family = "threes"    -> Rat(1, 10)
      [] family = "steals"    -> Rat(5, 100)
      [] family = "turnovers" -> Rat(3, 10)
      [] OTHER                -> Zero

\* the linear combination of each prop branch, before minutes scaling
RawMean(family, b, pf, zs, dp40) ==
    CASE family = "points" ->
            FAdd(FAdd(FAdd(FAdd(Rat(14, 1), FMul(Rat(22, 1), b.usage)),
                           FAdd(FMul(Rat(3, 1), pf), FMul(Rat(14, 10), zs.zpts))),
                      FAdd(FAdd(FMul(Rat(3, 10), zs.zfta), FMul(Rat(4, 10), zs.z3a)),
                           FMul(Rat(3, 10), zs.z3p))),
                 dp40)
      [] family = "rebounds" ->
            FAdd(FAdd(FAdd(Rat(65, 10), FMul(Rat(40, 1), b.rrate)),
                      FAdd(FMul(Rat(8, 10), pf), FMul(Rat(35, 100), zs.zreb))),
                 FMul(dp40, Rat(2, 10)))
      [] family = "assists" ->
            FAdd(FSub(FAdd(FAdd(Rat(38, 10), FMul(Rat(35, 1), b.arate)),
                           FAdd(FMul(Rat(7, 10), pf), FMul(Rat(35, 100), zs.zast))),
                      FMul(Rat(2, 10), zs.ztov)),
                 FMul(dp40, Rat(25, 100)))
      [] family = "threes" ->
            FAdd(FAdd(FAdd(Rat(18, 10), FMul(Rat(5, 1), b.ar3)),
                      FAdd(FMul(Rat(35, 100), pf), FMul(Rat(25, 100), zs.z3a))),
                 FAdd(FMul(Rat(15, 100), zs.z3p), FMul(dp40, Rat(1, 10))))
      [] family = "steals" ->
            FAdd(FAdd(Rat(9, 10), FMul(Rat(22, 1), b.srate)),
                 FAdd(FMul(Rat(1, 10), pf), FMul(Rat(15, 100), zs.ztov)))
      [] family = "turnovers" ->
            FAdd(FAdd(Rat(18, 10), FMul(Rat(20, 1), b.trate)),
                 FAdd(FMul(Rat(2, 10), pf), FMul(Rat(15, 100), zs.ztov)))
      [] OTHER -> NaN

\* mean = max(floor, raw * (min_mean / 32.0)) with the floor as second choice
Mean(family, b, pf, zs, dp40, min_mean) ==
    PyMax(MeanFloor(family),
          FMul(RawMean(family, b, pf, zs, dp40), FDiv(min_mean, Rat(32, 1))))

VarOfPoisson(family, mean) == mean

\* var: the mean times 1.35 or 1.30, or the mean itself for the low-count props
Var(family, mean) ==
    CASE family = "points"   -> FMul(mean, Rat(135, 100))
      [] family \in {"rebounds", "assists"} -> FMul(mean, Rat(130, 100))
      [] OTHER               -> mean

\* the distribution whose survival function gives p_over
Distribution(prop, mean, var) ==
    IF FGt(var, FMul(mean, Rat(105, 100))) THEN "nbinom"
    ELSE IF FGe(Rat(6, 1), mean)
            /\ prop \in {"3pm", "3ptm", "steals", "stl", "turnovers", "tov"}
         THEN "poisson"
    ELSE "norm"

NoRow ==
    [player |-> "", team |-> "", opponent |-> "", prop |-> "", line |-> NaN,
     proj_mean |-> NaN, proj_var |-> NaN,
     p_over |-> NaN, p_under |-> NaN, best_side |-> "", edge_bp |-> NaN,
     pace_factor |-> NaN,
     book |-> "", over_odds |-> None, under_odds |-> None]

\* the locals of project_row that lead to the mean: pace factor and game pace,
\* the z-scores, the baseline values, the scaled minutes, the on/off delta,
\* mean, var and the distribution used
NoCalc ==
    [pf |-> NaN, gp |-> NaN, zs |-> <<>>, b |-> <<>>, min_mean |-> NaN,
     dp40 |-> NaN, family |-> "none", mean |-> NaN, var |-> NaN, dist |-> ""]

\* what a call of project_row leaves: how it ended, the dict it returned and
\* its locals p_over, p_under, p_o_imp, p_u_imp, edge_over, edge_under
Outcome(kind, row, po, pu, poi, pui, eo, eu, calc) ==
    [kind |-> kind, row |-> row, p_over |-> po, p_under |-> pu,
     p_o_imp |-> poi, p_u_imp |-> pui, edge_over |-> eo, edge_under |-> eu,
     calc |-> calc]

Raised   == Outcome("raise", NoRow, NaN, NaN, NaN, NaN, NaN, NaN, NoCalc)
Returned == Outcome("none", NoRow, NaN, NaN, NaN, NaN, NaN, NaN, NoCalc)
NoCall   == Outcome("init", NoRow, NaN, NaN, NaN, NaN, NaN, NaN, NoCalc)

\* project_row(r): "raise" when an exception leaves the function, "none" when it
\* returns None, "row" with the dict it returns otherwise.  sf is the value the
\* survival function of the chosen distribution returns at the line.
\* the seven opponent z-scores of project_row (line 165)
ZScores(oppn) ==
    [z3a  |-> props_z_or_zero(oppn, "OPP_FG3A"),
     z3p  |-> props_z_or_zero(oppn, "OPP_FG3_PCT"),
     zfta |-> props_z_or_zero(oppn, "OPP_FTA"),
     zreb |-> props_z_or_zero(oppn, "OPP_REB"),
     zast |-> props_z_or_zero(oppn, "OPP_AST"),
     ztov |-> props_z_or_zero(oppn, "OPP_TOV"),
     zpts |-> props_z_or_zero(oppn, "OPP_PTS")]

\* the eight baseline floats of project_row (lines 169-176)
Baseline(player) ==
    [min_mean |-> BaseFloat(BaseCell(player, "min_mean"), Rat(30, 1)),
     usage    |-> BaseFloat(BaseCell(player, "usage_pct"), Rat(22, 100)),
     ar3      |-> BaseFloat(BaseCell(player, "3p_ar"), Rat(32, 100)),
     ftrate   |-> BaseFloat(BaseCell(player, "ft_rate"), Rat(25, 100)),
     rrate    |-> BaseFloat(BaseCell(player, "reb_rate"), Rat(14, 100)),
     arate    |-> BaseFloat(BaseCell(player, "ast_rate"), Rat(18, 100)),
     srate    |-> BaseFloat(BaseCell(player, "stl_rate"), Rat(25, 1000)),
     trate    |-> BaseFloat(BaseCell(player, "tov_rate"), Rat(12, 100))]

\* p = mean/var; rnb = mean*p/(1-p) if 0<p<1 else mean (lines 208-209),
\* computed only on the negative binomial branch
NBinom(mean, var) ==
    IF ~FGt(var, FMul(mean, Rat(105, 100)))
    THEN [used |-> FALSE, p |-> NaN, rnb |-> NaN, fallback |-> FALSE]
    ELSE IF FGt(FDiv(mean, var), Zero) /\ FGt(One, FDiv(mean, var))
    THEN [used |-> TRUE, p |-> FDiv(mean, var),
          rnb |-> FDiv(FMul(mean, FDiv(mean, var)), FSub(One, FDiv(mean, var))),
          fallback |-> FALSE]
    ELSE [used |-> TRUE, p |-> FDiv(mean, var), rnb |-> mean, fallback |-> TRUE]

\* the locals of project_row once mean and var are known (lines 205-216)
CalcDist(prop, family, pg, zs, b, min_mean, dp40, mean, var) ==
    [pf |-> pg.pf, gp |-> pg.gp, zs |-> zs, b |-> b,
     min_mean |-> min_mean, dp40 |-> dp40, family |-> family,
     mean |-> mean, var |-> var, dist |-> Distribution(prop, mean, var),
     nb |-> NBinom(mean, var)]

CalcVar(prop, family, pg, zs, b, min_mean, dp40, mean) ==
    CalcDist(prop, family, pg, zs, b, min_mean, dp40, mean, Var(family, mean))

\* min_mean *= minutes_scale, then the branch of the prop (lines 180-203)
Calc(prop, family, pg, zs, b, min_mean, dp40) ==
    CalcVar(prop, family, pg, zs, b, min_mean, dp40,
            Mean(family, b, pg.pf, zs, dp40, min_mean))

\* project_row from its probability on: lines 223-238, and the order in
\* which the earlier statements raise
ProjectRow(r, sf, family, bc, ms, oi, ui, calc) ==
    LET line       == ParseLine(r.line)
        p_over     == POver(line, sf)
        p_under    == FSub(One, p_over)
        edge_over  == FSub(p_over, oi.val)
        edge_under == FSub(p_under, ui.val)
        best_side  == BestSide(edge_over, edge_under)
        edge_bp    == IF best_side = "OVER" THEN edge_over ELSE edge_under
    IN  IF PositionRaises(BasePosition(r.player)) THEN Raised
        ELSE IF \E f \in DOMAIN bc : bc[f].raise THEN Raised
        ELSE IF ms.raise THEN Raised
        ELSE IF family = "none" THEN Returned
        ELSE IF oi.raise \/ ui.raise THEN Raised
        ELSE Outcome("row",
                 [player |-> r.player, team |-> r.team, opponent |-> r.opponent,
                  prop |-> r.prop, line |-> line,
                  proj_mean |-> Round3(calc.mean), proj_var |-> Round3(calc.var),
                  p_over |-> Round4(p_over), p_under |-> Round4(p_under),
                  best_side |-> best_side, edge_bp |-> Round4(edge_bp),
                  pace_factor |-> Round3(calc.pf),
                  book |-> r.book, over_odds |-> r.over_odds,
                  under_odds |-> r.under_odds],
                 p_over, p_under, oi.val, ui.val, edge_over, edge_under,
                 calc)

ProjectWith(r, sf, prop, pg, zs, bc, ms, dp40) ==
    ProjectRow(r, sf, PropFamily(prop), bc, ms,
               ImpliedInline(r.over_odds), ImpliedInline(r.under_odds),
               Calc(prop, PropFamily(prop), pg, zs,
                    [f \in DOMAIN bc |-> bc[f].val],
                    FMul(bc.min_mean.val, ms.val), dp40))

project_row(r, sf) ==
    ProjectWith(r, sf, StripLower(r.prop), pace_factor(r.team, r.opponent),
                ZScores(r.opponent), Baseline(r.player), MinutesScale(r.team),
                DeltaPer40(r.player, r.team))

----------------------------------------------------------------------------
(* props_model.py: the batch loop over the lines *)

\* rows.append(res) without the "if res" test
CollectAll(acc, res) == IF res.kind # "raise" THEN Append(acc, res.row) ELSE acc

\* if res: rows.append(res)
Collect(acc, res) == IF res.kind = "row" THEN Append(acc, res.row) ELSE acc

\* an exception that leaves the loop instead of continuing it
AfterLineAbort(res, k, n) == IF res.kind = "raise" THEN n + 1 ELSE k + 1

\* the except branch of the loop: continue with the next record
AfterLine(res, k, n) == k + 1

\* values the survival function can return at a numeric line
SurvivalGrid == {Rat(1, 2), Rat(11, 20)}

BaseLine ==
    [player |-> "A. Wilson", team |-> "Aces", opponent |-> "Dream",
     prop |-> "points", line |-> Num(31), over_odds |-> Num(100),
     under_odds |-> Num(-120), book |-> "dk"]

LineSet ==
    {BaseLine}
    \cup {[BaseLine EXCEPT !.prop = p] : p \in {"PTS ", " Threes", "stl", "ftm", ""}}
    \cup {[BaseLine EXCEPT !.line = c] : c \in {Text, Blank}}
    \cup {[BaseLine EXCEPT !.over_odds = c] :
            c \in {Num(150), Num(-150), Num(0), None, Empty, Blank, Text}}
    \cup {[BaseLine EXCEPT !.under_odds = c] : c \in {Num(100), None, Blank, Text}}
    \cup {[BaseLine EXCEPT !.player = p] : p \in {"C. Gray", "Rookie"}}

\* the columns of opponent_per100_last6 that project_row reads
OppCols ==
    {"OPP_FG3A", "OPP_FG3_PCT", "OPP_FTA", "OPP_REB", "OPP_AST", "OPP_TOV", "OPP_PTS"}

\* the allowance columns of the tab that either engine reads
AllOppCols == OppCols \cup {"OPP_OREB"}

\* opponent tables: allowances spread around 100 (the Dream one deviation
\* above the mean), a league of identical teams, a blank OPP_PTS cell next to
\* two equal ones, a one-team table, a text cell in OPP_PTS, no Dream row
OppSpread ==
    [t \in {"Aces", "Dream", "Fever"} |->
        [c \in AllOppCols |-> IF t = "Aces" THEN Num(90)
                              ELSE IF t = "Dream" THEN Num(110) ELSE Num(100)]]
OppFlat == [t \in {"Aces", "Dream", "Fever"} |-> [c \in AllOppCols |-> Num(100)]]
OppBlankPts == [OppSpread EXCEPT !["Aces"]["OPP_PTS"] = Num(100),
                                 !["Dream"]["OPP_PTS"] = Blank]
OppAlone == [t \in {"Dream"} |-> [c \in AllOppCols |-> Num(110)]]
OppTextPts == [OppSpread EXCEPT !["Fever"]["OPP_PTS"] = Text]
OppNoDream == [t \in {"Aces", "Fever"} |-> OppSpread[t]]
OppTables == {OppSpread, OppFlat, OppBlankPts, OppAlone, OppTextPts, OppNoDream}

\* pace tables: a league whose mean is 100, one without the Dream, a blank
\* PACE cell, an empty tab, a tab of zeros, a tab of negative numbers, a tab
\* of blanks
PaceAll == [t \in {"Aces", "Dream", "Fever"} |->
               IF t = "Aces" THEN Num(100) ELSE IF t = "Dream" THEN Num(110) ELSE Num(90)]
PaceNoDream == [t \in {"Aces", "Fever"} |-> PaceAll[t]]
PaceBlankAces == [PaceAll EXCEPT !["Aces"] = Blank]
PaceZero == [t \in {"Aces", "Dream"} |-> Num(0)]
PaceNegative == [t \in {"Aces", "Dream"} |-> Num(-100)]
PaceAllBlank == [t \in {"Aces", "Dream"} |-> Blank]
PaceTables ==
    {PaceAll, PaceNoDream, PaceBlankAces, <<>>, PaceZero, PaceNegative, PaceAllBlank}

\* the statistics props_model derives from its tabs when it is loaded
LoadReference ==
    /\ mu_opp = ColumnMeans(opp_tab, NumCols(opp_tab))
    /\ sd_opp = ColumnStds(opp_tab, NumCols(opp_tab))
    /\ props_league_pace = PaceMean([t \in DOMAIN pace_tab |-> CellFloat(pace_tab[t])])

\* the role and feature modules are not running
IoIdle ==
    /\ retry = <<>>
    /\ req = <<>>
    /\ load = <<>>

OtherIdle ==
    /\ IoIdle
    /\ rep = <<>>
    /\ train = <<>>
    /\ bundle = <<>>
    /\ f10 = <<>>
    /\ pred = <<>>
    /\ lab = <<>>
    /\ rpc = "idle"
    /\ logs = <<>>
    /\ win = 0
    /\ out = <<>>
    /\ fpc = "idle"

SeqsUpTo(S, n) == UNION {[1..k -> S] : k \in 0..n}

\* run_wnba_daily.py is not running
SuggIdle ==
    /\ lines_df = <<>>
    /\ df_opp_all = <<>>
    /\ df_pace = <<>>
    /\ df_ff_all = <<>>
    /\ league_means_opp = <<>>
    /\ league_stds_opp = <<>>
    /\ league_pace = NaN
    /\ si = 1
    /\ sugg = <<>>
    /\ sframe = <<>>
    /\ spc = "idle"

InitProj ==
    /\ opp_tab = OppSpread
    /\ pace_tab = PaceAll
    /\ LoadReference
    /\ lines \in SeqsUpTo(LineSet, MaxLines)
    /\ i = 1
    /\ rows = <<>>
    /\ frame = NoCall
    /\ pc = "loop"
    /\ SuggIdle
    /\ OtherIdle

\* one iteration of "for rec in lines.to_dict('records')"
RowLoop ==
    /\ pc = "loop"
    /\ i <= Len(lines)
    /\ \E sf \in SurvivalGrid :
          /\ frame' = project_row(lines[i], sf)
          /\ rows' = Collect(rows, frame')
          /\ i' = AfterLine(frame', i, Len(lines))
    /\ UNCHANGED <<lines, pc, refVars>>
    /\ UNCHANGED <<suggVars, otherVars>>

\* df = pd.DataFrame(rows); df.to_csv(out_csv)
WriteCsv ==
    /\ pc = "loop"
    /\ i > Len(lines)
    /\ pc' = "done"
    /\ UNCHANGED <<lines, i, rows, frame, refVars>>
    /\ UNCHANGED <<suggVars, otherVars>>

NextProj == RowLoop \/ WriteCsv

SpecProj == InitProj /\ [][NextProj]_vars

----------------------------------------------------------------------------
(* props_model.py on one line, over the reference data it can be given *)

LinePlayers == {"A. Wilson", "C. Gray", "K. Plum", "Rookie", "S. Ionescu"}
LineTeams == {"Aces", "Sky", "Wings", "Storm", "Liberty"}
LineOpponents == {"Dream", "Mercury"}
LineProps ==
    {"points", "reb", "ast", "3pm", "threes", "3s", "3pt made", "stl", "steals",
     "tov", "blocks"}

\* the pairs of tabs: every opponent tab with the full pace tab, every pace
\* tab with the spread opponent tab
RefTables ==
    {<<o, PaceAll>> : o \in OppTables} \cup {<<OppSpread, q>> : q \in PaceTables}

InitLine ==
    /\ \E ctx \in RefTables :
          /\ opp_tab = ctx[1]
          /\ pace_tab = ctx[2]
    /\ LoadReference
    /\ \E p \in LinePlayers, t \in LineTeams, o \in LineOpponents, pr \in LineProps :
          lines = <<[BaseLine EXCEPT !.player = p, !.team = t, !.opponent = o,
                                     !.prop = pr]>>
    /\ i = 1
    /\ rows = <<>>
    /\ frame = NoCall
    /\ pc = "loop"
    /\ SuggIdle
    /\ OtherIdle

SpecLine == InitLine /\ [][NextProj]_vars

----------------------------------------------------------------------------
(* run_wnba_daily.py: reference data of the suggestion engine *)

\* team names in index order (the tables are sorted by team name)
TeamOrder == <<"Aces", "Dream", "Fever">>
Teams == {TeamOrder[k] : k \in 1..Len(TeamOrder)}

Metrics ==
    {"OPP_FG3A", "OPP_FG3_PCT", "OPP_FTA", "OPP_OREB", "OPP_REB", "OPP_AST",
     "OPP_TOV", "OPP_PTS"}

\* league_means_ff["eFG%"]
league_means_ff == [x \in {"eFG%"} |-> Rat(50, 1)]

\* df_pace as floats
PaceFloats(df) == [t \in DOMAIN df |-> Rat(df[t], 1)]

\* PACE_FAST_THRESH and PACE_SLOW_THRESH (defaults 1.05 and 0.95)
PACE_FAST_THRESH == Rat(21, 20)
PACE_SLOW_THRESH == Rat(19, 20)

\* rows of the opponent table
OppNeutral == [m \in Metrics |-> Num(100)]
OppGenerous ==
    [m \in Metrics |->
        CASE m = "OPP_FG3_PCT" -> Num(105)
          [] m = "OPP_OREB"    -> Num(110)
          [] m = "OPP_PTS"     -> Num(106)
          [] OTHER             -> Num(108)]
OppPassive == [OppNeutral EXCEPT !["OPP_TOV"] = Num(95)]
OppForcing == [OppNeutral EXCEPT !["OPP_TOV"] = Num(108)]
OppScoring == [OppNeutral EXCEPT !["OPP_PTS"] = Num(106)]

\* what the tables can hold for the opponent of the lines:
\* allowances, opponent eFG% allowed, PACE
Scenarios ==
    { [opp |-> OppNeutral,  efg |-> 50, pace |-> 100],
      [opp |-> OppGenerous, efg |-> 52, pace |-> 110],
      [opp |-> OppPassive,  efg |-> 48, pace |-> 90],
      [opp |-> OppNeutral,  efg |-> 48, pace |-> 110],
      [opp |-> OppForcing,  efg |-> 50, pace |-> 100],
      [opp |-> OppNeutral,  efg |-> 48, pace |-> 100],
      [opp |-> OppScoring,  efg |-> 50, pace |-> 100] }

\* which teams each table has: all of them, or one table lacks a team (a PACE
\* or an allowance row that is missing, a four-factor pull that failed or was
\* filtered to the line's own team)
Presence ==
    { [opp |-> Teams,             pace |-> Teams,             ff |-> Teams],
      [opp |-> Teams \ {"Dream"}, pace |-> Teams,             ff |-> Teams],
      [opp |-> Teams,             pace |-> Teams \ {"Dream"}, ff |-> Teams],
      [opp |-> Teams,             pace |-> Teams \ {"Aces"},  ff |-> Teams],
      [opp |-> Teams,             pace |-> Teams,             ff |-> Teams \ {"Dream"}],
      [opp |-> Teams,             pace |-> Teams,             ff |-> {"Aces"}] }

\* x in df.index
InIndex(x, df) == x \in DOMAIN df

----------------------------------------------------------------------------
(* run_wnba_daily.py: the scoring functions *)

B2I(b) == IF b THEN 1 ELSE 0

\* z(metric, team_name, df_opp, league_means_opp, league_stds_opp)[0]
z(metric, team_name, df_opp, means, stds) ==
    LET val == CellFloat(df_opp[team_name][metric])
        mu  == means[metric]
        sd  == IF FGt(stds[metric], Rat(0, 1)) THEN stds[metric] ELSE NaN
    IN IF ~sd.nan /\ sd.n # 0 THEN FDiv(FSub(val, mu), sd) ELSE Rat(0, 1)

\* pace_context that uses a pace only when both teams have one
pace_context_pair_only(team, opp) ==
    LET tp == IF InIndex(team, df_pace) THEN Rat(df_pace[team], 1) ELSE NaN
        op == IF InIndex(opp, df_pace) THEN Rat(df_pace[opp], 1) ELSE NaN
        gp == IF ~(tp.nan \/ op.nan) THEN FDiv(FAdd(tp, op), Rat(2, 1)) ELSE NaN
        pf == IF ~league_pace.nan /\ league_pace.n # 0 /\ ~gp.nan
                 /\ FGt(league_pace, Rat(0, 1))
              THEN FDiv(gp, league_pace) ELSE One
    IN [tp |-> tp, op |-> op, gp |-> gp, pf |-> pf]

\* pace_context(team, opp): <<tp, op, gp, pf>>
pace_context(team, opp) ==
    LET tp == IF InIndex(team, df_pace) THEN Rat(df_pace[team], 1) ELSE NaN
        op == IF InIndex(opp, df_pace) THEN Rat(df_pace[opp], 1) ELSE NaN
        gp == IF tp.nan /\ ~op.nan THEN op
              ELSE IF op.nan /\ ~tp.nan THEN tp
              ELSE IF ~(tp.nan \/ op.nan) THEN FDiv(FAdd(tp, op), Rat(2, 1))
              ELSE NaN
        pf == IF ~league_pace.nan /\ league_pace.n # 0 /\ ~gp.nan
                 /\ FGt(league_pace, Rat(0, 1))
              THEN FDiv(gp, league_pace) ELSE One
    IN [tp |-> tp, op |-> op, gp |-> gp, pf |-> pf]

\* decide_over_under with the two tests exchanged
decide_under_over(pos, neg) ==
    IF neg - pos >= 0 THEN "UNDER"
    ELSE IF pos - neg >= 1 THEN "OVER"
    ELSE "PASS"

decide_over_under(pos, neg) ==
    IF pos - neg >= 1 THEN "OVER"
    ELSE IF neg - pos >= 1 THEN "UNDER"
    ELSE "PASS"

\* conf_from_score without the top rung
conf_from_score_capped(p, n) ==
    LET net == p - n IN
        IF net >= 2 THEN "++"
        ELSE IF net = 1 THEN "+"
        ELSE IF net = 0 THEN "-"
        ELSE IF net <= -3 THEN "UNDER +++"
        ELSE IF net = -2 THEN "UNDER ++"
        ELSE IF net = -1 THEN "UNDER +"
        ELSE "-"

conf_from_score(p, n) ==
    LET net == p - n IN
        IF net >= 3 THEN "+++"
        ELSE IF net = 2 THEN "++"
        ELSE IF net = 1 THEN "+"
        ELSE IF net = 0 THEN "-"
        ELSE IF net <= -3 THEN "UNDER +++"
        ELSE IF net = -2 THEN "UNDER ++"
        ELSE IF net = -1 THEN "UNDER +"
        ELSE "-"

\* str(x).strip().lower() on the prop texts of the suggestion lines
PropLower(s) ==
    CASE s = "3PM" -> "3pm"
      [] OTHER     -> s

\* opp after "if not opp": the first team of df_ff other than the line's team,
\* None when there is none
NoOpp == "None"
EffectiveOpp(team, opp, df_ff) ==
    IF opp # "" THEN opp
    ELSE LET others == SelectSeq(TeamOrder, LAMBDA t : InIndex(t, df_ff) /\ t # team)
         IN IF Len(others) > 0 THEN others[1] ELSE NoOpp

\* the test before the short-circuit return, without the pace table
MissingReferenceOppOnly(team, opp, df_opp) == ~InIndex(opp, df_opp)

\* opp not in df_opp.index or team not in df_pace.index or opp not in df_pace.index
MissingReference(team, opp, df_opp) ==
    \/ ~InIndex(opp, df_opp)
    \/ ~InIndex(team, df_pace)
    \/ ~InIndex(opp, df_pace)

\* the positive and negative counts of a prop
Counts(prop_lower, zs, efg_hi, efg_lo, pf) ==
    LET shooter_sig == B2I(FGe(zs.z_3pa, Rat(4, 5))) + B2I(FGe(zs.z_3pct, Rat(1, 2)))
                       + B2I(efg_hi)
        driver_sig  == B2I(FGe(zs.z_fta, Rat(4, 5))) + B2I(FGe(zs.z_pts, Rat(3, 5)))
        rebound_sig == B2I(FGe(zs.z_oreb, One)) + B2I(FGe(zs.z_reb, Rat(4, 5)))
        assist_pos  == B2I(FGe(zs.z_ast, Rat(4, 5)))
                       + B2I(FGe(Rat(-1, 2), zs.z_tov_forced))
        assist_neg  == B2I(FGe(zs.z_tov_forced, Rat(4, 5)))
        steals_pos  == B2I(FGe(zs.z_tov_forced, Rat(4, 5)))
        pace_pos    == B2I(FGe(pf, PACE_FAST_THRESH))
        pace_neg    == B2I(FGe(PACE_SLOW_THRESH, pf))
    IN  IF prop_lower \in {"3pm", "3ptm", "3-pointers made", "3pt made", "threes", "3s"}
        THEN [pos |-> shooter_sig + pace_pos, neg |-> B2I(efg_lo) + pace_neg]
        ELSE IF prop_lower \in {"points", "pts", "p"}
        THEN [pos |-> shooter_sig + driver_sig + B2I(FGe(zs.z_pts, Rat(3, 5))) + pace_pos,
              neg |-> B2I(efg_lo) + pace_neg]
        ELSE IF prop_lower \in {"rebounds", "reb", "r"}
        THEN [pos |-> rebound_sig + pace_pos, neg |-> pace_neg]
        ELSE IF prop_lower \in {"assists", "ast", "a"}
        THEN [pos |-> assist_pos + pace_pos, neg |-> assist_neg + pace_neg]
        ELSE IF prop_lower \in {"ftm", "free throws made", "free throws"}
        THEN [pos |-> driver_sig + pace_pos, neg |-> pace_neg]
        ELSE IF prop_lower \in {"steals", "stl"}
        THEN [pos |-> steals_pos + pace_pos, neg |-> pace_neg]
        ELSE IF prop_lower \in {"turnovers", "tov"}
        THEN [pos |-> B2I(FGe(zs.z_tov_forced, Rat(4, 5))) + pace_pos,
              neg |-> B2I(FGe(Rat(-1, 2), zs.z_tov_forced)) + pace_neg]
        ELSE [pos |-> 0, neg |-> 0]

\* the descriptions appended to signals, in order
Signals(zs, efg_hi, pf) ==
    (IF FGe(pf, PACE_FAST_THRESH) THEN <<"Fast pace">>
     ELSE IF FGe(PACE_SLOW_THRESH, pf) THEN <<"Slow pace">> ELSE <<>>)
    \o (IF FGe(zs.z_3pa, Rat(4, 5)) THEN <<"Opp 3PA high">> ELSE <<>>)
    \o (IF FGe(zs.z_3pct, Rat(1, 2)) THEN <<"Opp 3P% high">> ELSE <<>>)
    \o (IF efg_hi THEN <<"Opp eFG% allowed high">> ELSE <<>>)
    \o (IF FGe(zs.z_fta, Rat(4, 5)) THEN <<"Opp FTA high">> ELSE <<>>)
    \o (IF FGe(zs.z_oreb, One) THEN <<"Opp OREB high">> ELSE <<>>)
    \o (IF FGe(zs.z_reb, Rat(4, 5)) THEN <<"Opp REB high">> ELSE <<>>)
    \o (IF FGe(zs.z_ast, Rat(4, 5)) THEN <<"Opp AST high">> ELSE <<>>)
    \o (IF FGe(Rat(-1, 2), zs.z_tov_forced) THEN <<"Opp doesn't force TOs">> ELSE <<>>)
    \o (IF FGe(zs.z_tov_forced, Rat(4, 5)) THEN <<"Opp forces TOs">> ELSE <<>>)

\* suggestion = decide_over_under(pos, neg) if (pos or neg) else "PASS"
Suggestion(pos, neg) ==
    IF pos # 0 \/ neg # 0 THEN decide_over_under(pos, neg) ELSE "PASS"

\* conf = conf_from_score(pos, neg) if (pos or neg) else "-"
Confidence(pos, neg) ==
    IF pos # 0 \/ neg # 0 THEN conf_from_score(pos, neg) ELSE "-"

NoSuggRow ==
    [player |-> "", team |-> "", opponent |-> "", role |-> "", prop |-> "",
     line |-> NaN, over_odds |-> None, under_odds |-> None, book |-> "",
     suggestion |-> "", confidence |-> "", pace_factor |-> NaN,
     game_pace |-> NaN, league_pace |-> NaN, signals |-> <<>>]

\* how a scoring call ended ("row", "raise", or "applied" for a direct call of
\* the two ladder functions), the dict returned and the locals pos and neg
SuggOutcome(kind, row, pos, neg) == [kind |-> kind, row |-> row, pos |-> pos, neg |-> neg]

\* suggest_for_row(r, df_ff, df_opp, ...)
suggest_for_row(r, df_ff, df_opp) ==
    LET team == r.team
        opp  == EffectiveOpp(team, r.opponent, df_ff)
        line == ParseLine(r.line)
        head == [NoSuggRow EXCEPT !.player = r.player, !.team = team,
                    !.opponent = opp, !.prop = r.prop, !.line = line,
                    !.over_odds = r.over_odds, !.under_odds = r.under_odds,
                    !.book = r.book]
    IN  IF MissingReference(team, opp, df_opp)
        THEN SuggOutcome("row",
                 [head EXCEPT !.role = "None", !.suggestion = "PASS",
                     !.confidence = "-", !.signals = <<"Missing opp/pace data">>],
                 0, 0)
        ELSE IF ~InIndex(opp, df_ff)
        THEN SuggOutcome("raise", NoSuggRow, 0, 0)   \* df_ff.loc[opp, ...]: KeyError
        ELSE
        LET zs == [z_3pa  |-> z("OPP_FG3A", opp, df_opp, league_means_opp, league_stds_opp),
                   z_3pct |-> z("OPP_FG3_PCT", opp, df_opp, league_means_opp, league_stds_opp),
                   z_fta  |-> z("OPP_FTA", opp, df_opp, league_means_opp, league_stds_opp),
                   z_oreb |-> z("OPP_OREB", opp, df_opp, league_means_opp, league_stds_opp),
                   z_reb  |-> z("OPP_REB", opp, df_opp, league_means_opp, league_stds_opp),
                   z_ast  |-> z("OPP_AST", opp, df_opp, league_means_opp, league_stds_opp),
                   z_tov_forced |-> z("OPP_TOV", opp, df_opp, league_means_opp, league_stds_opp),
                   z_pts  |-> z("OPP_PTS", opp, df_opp, league_means_opp, league_stds_opp)]
            opp_eFG_allowed == Rat(df_ff[opp], 1)
            efg_hi == FGe(opp_eFG_allowed, FMul(league_means_ff["eFG%"], Rat(102, 100)))
            efg_lo == FGe(FMul(league_means_ff["eFG%"], Rat(98, 100)), opp_eFG_allowed)
            pcx == pace_context(team, opp)
            c   == Counts(PropLower(r.prop), zs, efg_hi, efg_lo, pcx.pf)
        IN SuggOutcome("row",
               [head EXCEPT !.role = "(add role)",
                   !.suggestion = Suggestion(c.pos, c.neg),
                   !.confidence = Confidence(c.pos, c.neg),
                   !.pace_factor = Round3(pcx.pf),
                   !.game_pace = Round2(pcx.gp),
                   !.league_pace = Round2(league_pace),
                   !.signals = Signals(zs, efg_hi, pcx.pf)],
               c.pos, c.neg)

----------------------------------------------------------------------------
(* run_wnba_daily.py: generating the suggestions *)

SuggBaseLine ==
    [player |-> "A. Wilson", team |-> "Aces", opponent |-> "Dream",
     prop |-> "points", line |-> Num(31), over_odds |-> Num(100),
     under_odds |-> Num(-120), book |-> "dk"]

SuggLineSet ==
    {SuggBaseLine}
    \cup {[SuggBaseLine EXCEPT !.prop = p] :
            p \in {"3PM", "reb", "ast", "ftm", "stl", "tov", "blocks"}}
    \cup {[SuggBaseLine EXCEPT !.opponent = o] : o \in {"", "nan"}}
    \cup {[SuggBaseLine EXCEPT !.line = Text]}

\* the league statistics run_wnba_daily derives from the pulled tables
LeagueStats ==
    /\ league_means_opp = ColumnMeans(df_opp_all, Metrics)
    /\ league_stds_opp = ColumnStds(df_opp_all, Metrics)
    /\ league_pace = PaceMean(PaceFloats(df_pace))

\* run_wnba_daily.py runs on pasted lines and the pulled tables
InitBatch ==
    /\ \E sc \in Scenarios, pr \in Presence :
          /\ df_opp_all = [t \in pr.opp |-> IF t = "Dream" THEN sc.opp ELSE OppNeutral]
          /\ df_pace = [t \in pr.pace |->
                            IF t = "Dream" THEN sc.pace
                            ELSE IF t = "Fever" THEN 200 - sc.pace ELSE 100]
          /\ df_ff_all = [t \in pr.ff |-> IF t = "Dream" THEN sc.efg ELSE 50]
    /\ LeagueStats
    /\ lines_df \in SeqsUpTo(SuggLineSet, MaxSuggLines)
    /\ si = 1
    /\ sugg = <<>>
    /\ sframe = SuggOutcome("init", NoSuggRow, 0, 0)
    /\ spc = "score"

\* decide_over_under and conf_from_score are called on counts of their own
InitLadder ==
    /\ lines_df = <<>>
    /\ df_opp_all = <<>>
    /\ df_pace = <<>>
    /\ df_ff_all = <<>>
    /\ league_means_opp = <<>>
    /\ league_stds_opp = <<>>
    /\ league_pace = NaN
    /\ si = 1
    /\ sugg = <<>>
    /\ \E p, n \in (-MaxCount)..MaxCount : sframe = SuggOutcome("init", NoSuggRow, p, n)
    /\ spc = "apply"

ProjIdle ==
    /\ lines = <<>>
    /\ i = 1
    /\ rows = <<>>
    /\ frame = NoCall
    /\ pc = "idle"
    /\ opp_tab = <<>>
    /\ pace_tab = <<>>
    /\ mu_opp = <<>>
    /\ sd_opp = <<>>
    /\ props_league_pace = NaN

InitSugg == ProjIdle /\ OtherIdle /\ (InitBatch \/ InitLadder)

\* one element of the list comprehension: suggest_for_row on the next record
SuggestStep ==
    /\ spc = "score"
    /\ si <= Len(lines_df)
    /\ LET res == suggest_for_row(lines_df[si], df_ff_all, df_opp_all) IN
          /\ sframe' = res
          /\ IF res.kind = "raise"
             THEN /\ spc' = "crashed"       \* nothing catches the exception
                  /\ UNCHANGED <<si, sugg>>
             ELSE /\ sugg' = Append(sugg, res.row)
                  /\ si' = si + 1
                  /\ spc' = spc
    /\ UNCHANGED <<lines_df, tabVars>>
    /\ UNCHANGED <<projVars, otherVars>>

\* sugg_df = pd.DataFrame([...]); sugg_df.to_csv(sugg_out); with no lines
\* (lines_df.empty) the suggestions are skipped and no table is written
SuggWrite ==
    /\ spc = "score"
    /\ si > Len(lines_df)
    /\ spc' = IF Len(lines_df) = 0 THEN "skipped" ELSE "done"
    /\ UNCHANGED <<lines_df, tabVars, si, sugg, sframe>>
    /\ UNCHANGED <<projVars, otherVars>>

\* decide_over_under(pos, neg) and conf_from_score(pos, neg)
ApplyLadder ==
    /\ spc = "apply"
    /\ sframe' = SuggOutcome("applied",
                    [NoSuggRow EXCEPT
                        !.suggestion = decide_over_under(sframe.pos, sframe.neg),
                        !.confidence = conf_from_score(sframe.pos, sframe.neg)],
                    sframe.pos, sframe.neg)
    /\ spc' = "applied"
    /\ UNCHANGED <<lines_df, tabVars, si, sugg>>
    /\ UNCHANGED <<projVars, otherVars>>

NextSugg == SuggestStep \/ SuggWrite \/ ApplyLadder

SpecSugg == InitSugg /\ [][NextSugg]_vars

----------------------------------------------------------------------------
(* The pace factor and the z-score of both engines on the same tabs *)

RefTeams == {"Aces", "Dream", "Fever", "Mercury"}

\* the opponent tabs both engines can read (every cell a number or a blank)
SharedOpp == OppTables \ {OppTextPts}

\* adv[["TEAM_NAME", "PACE"]].dropna().set_index("TEAM_NAME")
DropNa(tab) == [t \in {u \in DOMAIN tab : tab[u].t = "num"} |-> tab[t].v]

\* both programs have loaded the same opponent and pace data
InitRef ==
    /\ \E o \in SharedOpp, q \in PaceTables :
          /\ opp_tab = o
          /\ pace_tab = q
          /\ df_opp_all = o
          /\ df_pace = DropNa(q)
    /\ LoadReference
    /\ LeagueStats
    /\ df_ff_all = <<>>
    /\ \E t \in RefTeams, o \in RefTeams :
          /\ lines = <<[BaseLine EXCEPT !.team = t, !.opponent = o]>>
          /\ lines_df = <<[SuggBaseLine EXCEPT !.team = t, !.opponent = o]>>
    /\ i = 1
    /\ rows = <<>>
    /\ frame = NoCall
    /\ pc = "ref"
    /\ si = 1
    /\ sugg = <<>>
    /\ sframe = SuggOutcome("init", NoSuggRow, 0, 0)
    /\ spc = "ref"
    /\ OtherIdle

\* pace_factor and _z of props_model, pace_context and z of run_wnba_daily,
\* for the team and the opponent of the line
ApplyRef ==
    /\ pc = "ref"
    /\ spc = "ref"
    /\ frame' = [kind |-> "ref",
                 pace |-> pace_factor(lines[1].team, lines[1].opponent),
                 z    |-> [c \in OppCols |-> props_z_or_zero(lines[1].opponent, c)]]
    /\ sframe' = [kind |-> "ref",
                  pace |-> pace_context(lines_df[1].team, lines_df[1].opponent),
                  z    |-> IF InIndex(lines_df[1].opponent, df_opp_all)
                           THEN [m \in Metrics |->
                                    z(m, lines_df[1].opponent, df_opp_all,
                                      league_means_opp, league_stds_opp)]
                           ELSE <<>>]
    /\ pc' = "refd"
    /\ spc' = "refd"
    /\ UNCHANGED <<lines, i, rows, refVars, lines_df, tabVars, si, sugg>>
    /\ UNCHANGED otherVars

SpecRef == InitRef /\ [][ApplyRef]_vars

----------------------------------------------------------------------------
(* Properties of the projection batch (props_model.py) *)

\* how project_row ends on a record (the same for every survival value)
Kind(r) ==
    IF \/ PositionRaises(BasePosition(r.player))
       \/ \E f \in {"min_mean", "usage_pct", "3p_ar", "ft_rate", "reb_rate",
                     "ast_rate", "stl_rate", "tov_rate"} :
             BaseFloat(BaseCell(r.player, f), Zero).raise
       \/ MinutesScale(r.team).raise
    THEN "raise"
    ELSE IF PropFamily(StripLower(r.prop)) = "none" THEN "none"
    ELSE IF ImpliedInline(r.over_odds).raise \/ ImpliedInline(r.under_odds).raise
    THEN "raise"
    ELSE "row"

Processed == SubSeq(lines, 1, i - 1)

Count(S) == Cardinality(S)

\* the input fields a row carries over from its line
RowKey(row) ==
    <<row.player, row.team, row.opponent, row.prop, row.line,
      row.over_odds, row.under_odds, row.book>>

LineKey(r) ==
    <<r.player, r.team, r.opponent, r.prop, ParseLine(r.line),
      r.over_odds, r.under_odds, r.book>>

Yielding(r) == Kind(r) = "row"

\* C1: a line whose project_row raises adds no row and does not stop the batch;
\* every other line is still processed and the table is written with the rows
\* of all non-failing lines in input order.
C1_RaiseSkipsLineOnly ==
    LET expect == SelectSeq(Processed, Yielding) IN
       /\ i \in 1..(Len(lines) + 1)
       /\ Len(rows) = Len(expect)
       /\ \A k \in 1..Len(rows) : RowKey(rows[k]) = LineKey(expect[k])
       /\ (pc = "done" => i = Len(lines) + 1)

C1_Witness ==
    /\ pc = "done"
    /\ Len(lines) >= 2
    /\ Kind(lines[1]) = "raise"
    /\ Kind(lines[2]) = "row"
    /\ Len(rows) >= 1

\* project_row has been called on lines[i - 1]
Called == frame.kind # "init"

\* the line cell does not parse as a number: float() of it fails
Unparseable(r) == r.line.t \in {"text", "empty", "none"}

\* C2: a line whose line value cannot be parsed as a number is skipped (it
\* yields no row) while every other line yields its row: a batch of n lines
\* with exactly one unparseable line value yields exactly n-1 rows.
C2_UnparseableLineSkipped ==
    /\ (Called /\ Unparseable(lines[i - 1]) => frame.kind # "row")
    /\ ((/\ pc = "done"
         /\ Count({k \in 1..Len(lines) : Unparseable(lines[k])}) = 1
         /\ \A k \in 1..Len(lines) : ~Unparseable(lines[k]) => Kind(lines[k]) = "row")
        => Len(rows) = Len(lines) - 1)

RecognisedProps ==
    {"points", "pts", "rebounds", "reb", "assists", "ast", "3pm", "3ptm",
     "3-pointers made", "3pt made", "threes", "3s", "steals", "stl",
     "turnovers", "tov"}

\* the line has a recognised prop, odds that are numbers or missing, and a
\* usable baseline position: nothing but its line value can stand in the way
WellFormedButLine(r) ==
    /\ StripLower(r.prop) \in RecognisedProps
    /\ r.over_odds.t # "text"
    /\ r.under_odds.t # "text"
    /\ BasePosition(r.player).t \in {"none", "empty", "text"}

\* C4 as stated: exactly one row for every line whose projection does not
\* raise, whatever its prop type.
C4_OneRowPerNonRaisingLine ==
    pc = "done" =>
        Len(rows) = Count({k \in 1..Len(lines) : Kind(lines[k]) # "raise"})

\* C4 amended: exactly one row for every line whose projection does not raise
\* and whose prop (stripped, lower-cased) is a recognised name; a line with any
\* other prop yields no row although nothing is raised; no line yields two rows.
C4_OneRowPerRecognisedLine ==
    /\ Len(rows) =
          Count({k \in 1..(i - 1) :
                    /\ Kind(lines[k]) # "raise"
                    /\ StripLower(lines[k].prop) \in RecognisedProps})
    /\ Len(rows) <= i - 1
    /\ (frame.kind = "none" => StripLower(lines[i - 1].prop) \notin RecognisedProps)

C4_Witness ==
    /\ pc = "done"
    /\ Len(lines) = 2
    /\ StripLower(lines[1].prop) \notin RecognisedProps
    /\ Kind(lines[1]) = "none"
    /\ Kind(lines[2]) = "row"
    /\ Len(rows) = 1

\* the market-implied probability the specification gives: the payout formula
\* for a number, 0.5 (breakeven) for missing odds
SpecImplied(c) ==
    IF c.t = "num"
    THEN IF c.v > 0 THEN Rat(100, c.v + 100) ELSE Rat(-c.v, (-c.v) + 100)
    ELSE Rat(1, 2)

\* C8: edge_over = p_over - implied(over_odds), edge_under = p_under -
\* implied(under_odds); best_side is the side with the larger edge (OVER on a
\* tie) and edge_bp is the larger edge.
C8_BestSideIsLargerEdge ==
    frame.kind = "row" =>
        LET eo == FSub(frame.p_over, SpecImplied(frame.row.over_odds))
            eu == FSub(frame.p_under, SpecImplied(frame.row.under_odds))
        IN /\ frame.edge_over = eo
           /\ frame.edge_under = eu
           /\ frame.row.best_side = (IF FGe(eo, eu) THEN "OVER" ELSE "UNDER")
           /\ frame.row.edge_bp = Round4(IF FGe(eo, eu) THEN eo ELSE eu)

\* C9: implied probability 100/(o+100) for o > 0 and (-o)/((-o)+100) for
\* o <= 0 (+150 gives 0.4, -150 gives 0.6); implied_prob and the inline
\* conversion of project_row agree on every numeric o, and the value is
\* strictly between 0 and 1 for every non-zero o.
ImpliedAsStated(c, v) ==
    c.t = "num" =>
        /\ v = (IF c.v > 0 THEN Rat(100, c.v + 100) ELSE Rat(-c.v, (-c.v) + 100))
        /\ v = implied_prob(c)
        /\ (c.v # 0 => FGt(v, Rat(0, 1)) /\ FGt(One, v))
        /\ (c.v = 150 => v = Rat(2, 5))
        /\ (c.v = -150 => v = Rat(3, 5))

C9_ImpliedProbability ==
    frame.kind = "row" =>
        /\ ImpliedAsStated(frame.row.over_odds, frame.p_o_imp)
        /\ ImpliedAsStated(frame.row.under_odds, frame.p_u_imp)

C9_Witness ==
    /\ pc = "done"
    /\ \E j, k \in 1..Len(rows) :
          /\ rows[j].over_odds = Num(150)
          /\ rows[k].over_odds = Num(-150)
    /\ frame.kind = "row"
    /\ frame.row.over_odds = Num(-150)
    /\ frame.p_o_imp = Rat(3, 5)

\* the odds cell holds no odds: absent key, empty string or blank sheet cell
Missing(c) == c.t \in {"none", "empty", "nan"}

\* C10: a missing over_odds or under_odds gives that side the implied
\* probability 0.5, its edge is the model probability minus 0.5, and the line
\* still yields a row with a well-defined best_side.
C10_MissingOddsBreakeven ==
    /\ frame.kind = "row" =>
          /\ (Missing(frame.row.over_odds) =>
                 /\ frame.p_o_imp = Rat(1, 2)
                 /\ frame.edge_over = FSub(frame.p_over, Rat(1, 2)))
          /\ (Missing(frame.row.under_odds) =>
                 /\ frame.p_u_imp = Rat(1, 2)
                 /\ frame.edge_under = FSub(frame.p_under, Rat(1, 2)))
    /\ (i > 1 /\ WellFormedButLine(lines[i - 1])
          /\ (Missing(lines[i - 1].over_odds) \/ Missing(lines[i - 1].under_odds))
        => frame.kind = "row" /\ frame.row.best_side \in {"OVER", "UNDER"})

LowCount == {"threes", "steals", "turnovers"}

\* C11: the distribution is negative binomial when var > 1.05 * mean,
\* otherwise Poisson for every threes, steals or turnovers line (under every
\* accepted prop name, whatever the mean), otherwise Normal; a low-count line
\* is never scored with the Normal distribution.
C11_DistributionBranch ==
    frame.kind = "row" =>
        LET c == frame.calc IN
           /\ c.dist = (IF FGt(c.var, FMul(c.mean, Rat(105, 100))) THEN "nbinom"
                        ELSE IF c.family \in LowCount THEN "poisson"
                        ELSE "norm")
           /\ (c.family \in LowCount => c.dist # "norm")

\* C12: in every emitted row proj_mean is at least the floor of its prop type
\* (points 5, rebounds 2, assists 1, threes 0.1, steals 0.05, turnovers 0.3)
\* and proj_var is strictly positive, whatever the rates, z-scores, on/off
\* delta, pace factor and minutes scale.
C12_MeanFloorAndPositiveVariance ==
    /\ \A k \in 1..Len(rows) :
          LET family == PropFamily(StripLower(rows[k].prop))
              floor  == CASE family = "points"    -> Rat(5, 1)
                          [] family = "rebounds"  -> Rat(2, 1)
                          [] family = "assists"   -> Rat(1, 1)
                          [] family = "threes"    -> Rat(1, 10)
                          [] family = "steals"    -> Rat(5, 100)
                          [] family = "turnovers" -> Rat(3, 10)
          IN /\ FGe(rows[k].proj_mean, floor)
             /\ FGt(rows[k].proj_var, Zero)
    /\ (frame.kind = "row" =>
           /\ FGe(frame.calc.mean, MeanFloor(frame.calc.family))
           /\ FGt(frame.calc.var, Zero))

\* a row comes out at the floor although the scaled minutes are undefined,
\* and another although the raw combination is negative
C12_Witness ==
    /\ pc = "done"
    /\ Len(rows) = 1
    /\ frame.kind = "row"
    /\ \/ frame.calc.min_mean.nan
       \/ FGt(Zero, frame.calc.min_mean)
       \/ FGt(Zero, frame.calc.dp40)
    /\ rows[1].proj_mean = MeanFloor(frame.calc.family)
    /\ FGt(rows[1].proj_var, Zero)

\* the default of each baseline field and the local that receives it
BaseDefault ==
    [f \in BaseFields \ {"position"} |->
        CASE f = "min_mean"  -> [local |-> "min_mean", val |-> Rat(30, 1)]
          [] f = "usage_pct" -> [local |-> "usage",    val |-> Rat(22, 100)]
          [] f = "3p_ar"     -> [local |-> "ar3",      val |-> Rat(32, 100)]
          [] f = "ft_rate"   -> [local |-> "ftrate",   val |-> Rat(25, 100)]
          [] f = "reb_rate"  -> [local |-> "rrate",    val |-> Rat(14, 100)]
          [] f = "ast_rate"  -> [local |-> "arate",    val |-> Rat(18, 100)]
          [] f = "stl_rate"  -> [local |-> "srate",    val |-> Rat(25, 1000)]
          [] f = "tov_rate"  -> [local |-> "trate",    val |-> Rat(12, 100)]]

\* the baseline value is absent: no row for the player, or a blank cell
Absent(c) == c.t \in {"none", "nan"}

\* nothing but absent baseline values can stand in the way of the line: its
\* prop is recognised, its odds are numbers or missing, the baseline cells
\* that are present are usable and so is the minutes scale of its team
SoundButBaseline(r) ==
    /\ StripLower(r.prop) \in RecognisedProps
    /\ r.over_odds.t # "text"
    /\ r.under_odds.t # "text"
    /\ BaseCell(r.player, "position").t \in {"none", "nan", "empty", "text"}
    /\ \A f \in BaseFields \ {"position"} :
          BaseCell(r.player, f).t \in {"none", "nan", "num"}
    /\ (r.team \in DOMAIN REST => REST[r.team].minutes_scale.t \in {"num", "nan"})

\* C15: every baseline field that is absent (no baseline row for the player,
\* or a blank cell) is replaced by its default (30 minutes, usage 0.22, 3p_ar
\* 0.32, ft_rate 0.25, reb_rate 0.14, ast_rate 0.18, stl_rate 0.025, tov_rate
\* 0.12, empty position), and an absent value never makes the line fail or be
\* skipped.
C15_BaselineDefaults ==
    Called =>
        LET r == lines[i - 1] IN
           /\ (frame.kind = "row" =>
                  \A f \in DOMAIN BaseDefault :
                     Absent(BaseCell(r.player, f)) =>
                        frame.calc.b[BaseDefault[f].local] = BaseDefault[f].val)
           /\ (SoundButBaseline(r) => frame.kind = "row")

----------------------------------------------------------------------------
(* Properties of the reference functions of both engines *)

\* the team has a pace: a row in the pace tab with a number in PACE
HasPace(t) == t \in DOMAIN pace_tab /\ pace_tab[t].t = "num"

\* the pace factor as stated
StatedPaceFactor(team, oppn) ==
    LET lg == SeriesMean([t \in DOMAIN pace_tab |-> CellFloat(pace_tab[t])])
        tp == IF HasPace(team) THEN Rat(pace_tab[team].v, 1) ELSE NaN
        op == IF HasPace(oppn) THEN Rat(pace_tab[oppn].v, 1) ELSE NaN
    IN IF lg.nan \/ ~FGt(lg, Zero) THEN One
       ELSE IF HasPace(team) /\ HasPace(oppn) THEN FDiv(FDiv(FAdd(tp, op), Rat(2, 1)), lg)
       ELSE IF HasPace(team) THEN FDiv(tp, lg)
       ELSE IF HasPace(oppn) THEN FDiv(op, lg)
       ELSE One

\* C13: the pace factor is the mean of the two paces over the league mean when
\* both teams have a pace, the one pace over the league mean when exactly one
\* has, and exactly 1.0 when neither has or the league mean is undefined or
\* not positive; pace_factor and pace_context return the same factor.
C13_PaceFactor ==
    frame.kind = "ref" =>
        /\ frame.pace.pf = StatedPaceFactor(lines[1].team, lines[1].opponent)
        /\ sframe.pace.pf = frame.pace.pf

C13_Witness ==
    /\ frame.kind = "ref"
    /\ HasPace(lines[1].team)
    /\ ~HasPace(lines[1].opponent)
    /\ frame.pace.pf # One
    /\ frame.pace.pf = FDiv(Rat(pace_tab[lines[1].team].v, 1), props_league_pace)
    /\ sframe.pace.pf = frame.pace.pf

\* the z-score as stated, on a column of the opponent tab
StatedZ(tab, team, col) ==
    LET sdv == SeriesStd(Column(tab, col))
    IN IF team \notin DOMAIN tab \/ col \notin NumCols(tab) THEN Zero
       ELSE IF sdv.nan \/ sdv.n = 0 THEN Zero
       ELSE FDiv(FSub(CellFloat(tab[team][col]), SeriesMean(Column(tab, col))), sdv)

\* C14: the z-score of an allowance column is (value - league mean) / league
\* deviation, and exactly 0 whenever that deviation is zero or undefined
\* (in the projection engine also when the opponent or the column is absent),
\* in the projection engine and in the suggestion engine alike.
C14_ZScore ==
    frame.kind = "ref" =>
        /\ \A c \in OppCols : frame.z[c] = StatedZ(opp_tab, lines[1].opponent, c)
        /\ \A m \in DOMAIN sframe.z :
              sframe.z[m] = StatedZ(df_opp_all, lines_df[1].opponent, m)

----------------------------------------------------------------------------
(* Properties of the suggestion engine (run_wnba_daily.py) *)

\* a scoring call of suggest_for_row has ended, on the record ScoredLine
Scored == sframe.kind \in {"row", "raise"}
ScoredLine == IF spc = "crashed" THEN lines_df[si] ELSE lines_df[si - 1]

\* the line lacks reference data: its opponent (for an empty opponent, the
\* team substituted for it, if any) is not in the opponent table, or its team
\* or that opponent is not in the pace table
LacksReference(r) ==
    LET others == (DOMAIN df_ff_all) \ {r.team}
        o == EffectiveOpp(r.team, r.opponent, df_ff_all)
    IN \/ r.team \notin DOMAIN df_pace
       \/ (r.opponent = "" /\ others = {})
       \/ o \notin DOMAIN df_opp_all
       \/ o \notin DOMAIN df_pace

\* C3: a line with missing opponent or pace reference data gets a row with
\* suggestion PASS, confidence "-" and a non-empty signals string; nothing is
\* raised.
C3_MissingReferencePasses ==
    Scored /\ LacksReference(ScoredLine) =>
        /\ sframe.kind = "row"
        /\ sframe.row.suggestion = "PASS"
        /\ sframe.row.confidence = "-"
        /\ Len(sframe.row.signals) > 0
        /\ sugg[Len(sugg)] = sframe.row

C3_Witness ==
    /\ Scored
    /\ ScoredLine.opponent = ""
    /\ (DOMAIN df_ff_all) \ {ScoredLine.team} = {}
    /\ sframe.kind = "row"
    /\ sframe.row.suggestion = "PASS"
    /\ sframe.row.signals = <<"Missing opp/pace data">>

\* C5: the suggestion batch never aborts because of one line: the table is
\* produced and has exactly one row per input line.
C5_SuggestionBatchNeverAborts ==
    /\ spc # "crashed"
    /\ (spc = "done" => Len(sugg) = Len(lines_df))

\* C6: OVER exactly when pos - neg >= 1, UNDER exactly when neg - pos >= 1,
\* PASS exactly when pos = neg (pos = neg = 0 and pos = neg > 0 included).
C6_DecisionRule ==
    sframe.kind \in {"row", "applied"} =>
        LET pos == sframe.pos
            neg == sframe.neg
            sg  == sframe.row.suggestion
        IN /\ sg \in {"OVER", "UNDER", "PASS"}
           /\ (sg = "OVER" <=> pos - neg >= 1)
           /\ (sg = "UNDER" <=> neg - pos >= 1)
           /\ (sg = "PASS" <=> pos = neg)

C6_Witness ==
    /\ sframe.kind = "row"
    /\ sframe.pos = sframe.neg
    /\ sframe.pos > 0
    /\ sframe.row.suggestion = "PASS"

\* the ladder as stated
Tier(net) ==
    CASE net >= 3  -> "+++"
      [] net = 2   -> "++"
      [] net = 1   -> "+"
      [] net = 0   -> "-"
      [] net = -1  -> "UNDER +"
      [] net = -2  -> "UNDER ++"
      [] net <= -3 -> "UNDER +++"

TierMatchesSide(row) ==
    /\ (row.confidence \in {"+", "++", "+++"} => row.suggestion = "OVER")
    /\ (row.confidence \in {"UNDER +", "UNDER ++", "UNDER +++"} => row.suggestion = "UNDER")
    /\ (row.confidence = "-" => row.suggestion = "PASS")

\* C7: the confidence tier is the ladder value of net = pos - neg, for every
\* net; in every emitted row a positive tier goes with OVER, an UNDER tier
\* with UNDER and "-" with PASS.
C7_ConfidenceLadder ==
    /\ (sframe.kind \in {"row", "applied"} =>
           /\ sframe.row.confidence = Tier(sframe.pos - sframe.neg)
           /\ TierMatchesSide(sframe.row))
    /\ \A k \in 1..Len(sugg) : TierMatchesSide(sugg[k])

C7_Witness ==
    /\ sframe.kind = "applied"
    /\ sframe.pos - sframe.neg <= -3
    /\ sframe.row.confidence = "UNDER +++"
    /\ sframe.row.suggestion = "UNDER"

\* ---------------------------------------------------------------------
\* Role clustering: cluster_off.py, cluster_def.py, label.py, driven by
\* scripts/fit_roles.py and infer_roles_today.py
\* ---------------------------------------------------------------------

\* feature cells hold hundredths; an infinite cell carries its sign
PosInf == [t |-> "inf", v |-> 1]
NegInf == [t |-> "inf", v |-> -1]

OFF_FEATURES == <<"pts40", "ast40", "three_rate", "ft_rate", "tov40">>
DEF_FEATURES == <<"reb40", "stl40", "blk40">>

FeatureCols == {"pts40", "ast40", "three_rate", "ft_rate", "tov40",
                "reb40", "stl40", "blk40"}

ColSet(feats) == {feats[j] : j \in DOMAIN feats}

\* largest training table modelled
MaxTrain == 24

IntMin(a, b) == IF b < a THEN b ELSE a
IntMax(a, b) == IF b > a THEN b ELSE a

FitKNoFloor(n_components, n) == IntMin(n_components, n \div 8)

\* k=min(n_components, max(2, len(df)//8))
FitK(n_components, n) == IntMin(n_components, IntMax(2, n \div 8))

\* fit_offensive_roles / fit_defensive_roles: the bundle keeps the feature
\* list; GaussianMixture.fit refuses fewer samples than components
fit_roles(feats, n_components, n) ==
    LET k == FitK(n_components, n)
    IN [k |-> k, features |-> feats, fitted |-> n >= k]

\* .replace([inf,-inf], nan).fillna(0.0) on one cell
FillCell(c) == IF c.t = "num" THEN Rat(c.v, 100) ELSE Zero

\* what predict_proba can return for one row of a k-component mixture
ProbVectors(k) ==
    {[m \in 0..(k - 1) |-> IF m = j THEN Rat(3, k + 2) ELSE Rat(1, k + 2)] :
        j \in 0..(k - 1)}

\* model.predict: the component of highest posterior, first on ties
ArgMax(p) ==
    CHOOSE j \in DOMAIN p :
        /\ \A m \in DOMAIN p : FGe(p[j], p[m])
        /\ \A m \in DOMAIN p : (m < j) => FGt(p[j], p[m])

\* predict_offensive_roles / predict_defensive_roles; probs is the fitted
\* model's answer for the rows
predict_roles(b, df, probs) ==
    IF ~(ColSet(b.features) \subseteq df.cols)
    THEN [kind |-> "raise", X |-> <<>>, probs |-> <<>>, labs |-> <<>>]
    ELSE [kind  |-> "ok",
          X     |-> [r \in DOMAIN df.rows |->
                        [f \in ColSet(b.features) |-> FillCell(df.rows[r][f])]],
          probs |-> probs,
          labs  |-> [r \in DOMAIN df.rows |-> ArgMax(probs[r])]]

FeatFloat(c) == IF c.t = "num" THEN Rat(c.v, 100) ELSE NaN

name_offense_facilitator_first(c) ==
    LET pts == c["pts40"]  ast == c["ast40"]  three == c["three_rate"]
        ftr == c["ft_rate"]
    IN IF FGt(three, Rat(45, 100)) /\ FGt(Rat(4, 1), ast)
              /\ FGt(Rat(35, 100), ftr) THEN "Shooter"
       ELSE IF FGt(ast, Rat(6, 1)) /\ FGt(Rat(20, 1), pts) THEN "Facilitator"
       ELSE IF FGt(ftr, Rat(45, 100)) /\ FGt(pts, Rat(18, 1))
            THEN "Driver/Slasher"
       ELSE IF FGt(pts, Rat(22, 1))
                 /\ (FGt(Rat(25, 100), three) \/ FGt(ftr, Rat(45, 100)))
            THEN "Primary Scorer"
       ELSE IF FGt(three, Rat(35, 100)) /\ FGt(ast, Rat(5, 1))
            THEN "Combo Guard"
       ELSE "Balanced Wing"

name_offense_scorer_first(c) ==
    LET pts == c["pts40"]  ast == c["ast40"]  three == c["three_rate"]
        ftr == c["ft_rate"]
    IN IF FGt(three, Rat(45, 100)) /\ FGt(Rat(4, 1), ast)
              /\ FGt(Rat(35, 100), ftr) THEN "Shooter"
       ELSE IF FGt(pts, Rat(22, 1))
                 /\ (FGt(Rat(25, 100), three) \/ FGt(ftr, Rat(45, 100)))
            THEN "Primary Scorer"
       ELSE IF FGt(ftr, Rat(45, 100)) /\ FGt(pts, Rat(18, 1))
            THEN "Driver/Slasher"
       ELSE IF FGt(ast, Rat(6, 1)) /\ FGt(Rat(20, 1), pts) THEN "Facilitator"
       ELSE IF FGt(three, Rat(35, 100)) /\ FGt(ast, Rat(5, 1))
            THEN "Combo Guard"
       ELSE "Balanced Wing"

name_offense(c) ==
    LET pts == c["pts40"]  ast == c["ast40"]  three == c["three_rate"]
        ftr == c["ft_rate"]
    IN IF FGt(three, Rat(45, 100)) /\ FGt(Rat(4, 1), ast)
              /\ FGt(Rat(35, 100), ftr) THEN "Shooter"
       ELSE IF FGt(ftr, Rat(45, 100)) /\ FGt(pts, Rat(18, 1))
            THEN "Driver/Slasher"
       ELSE IF FGt(ast, Rat(6, 1)) /\ FGt(Rat(20, 1), pts) THEN "Facilitator"
       ELSE IF FGt(pts, Rat(22, 1))
                 /\ (FGt(Rat(25, 100), three) \/ FGt(ftr, Rat(45, 100)))
            THEN "Primary Scorer"
       ELSE IF FGt(three, Rat(35, 100)) /\ FGt(ast, Rat(5, 1))
            THEN "Combo Guard"
       ELSE "Balanced Wing"

name_defense(c) ==
    LET reb == c["reb40"]  stl == c["stl40"]  blk == c["blk40"]
    IN IF FGt(blk, Rat(16, 10)) /\ FGt(reb, Rat(8, 1)) THEN "Rim Protector"
       ELSE IF FGt(reb, Rat(10, 1)) /\ FGt(One, blk) THEN "Boarding Big"
       ELSE IF FGt(stl, Rat(2, 1)) /\ FGt(Rat(7, 1), reb)
            THEN "Point of Attack"
       ELSE "Team Defender"

\* _centers: per component the mean of its members' features, all zeros
\* for a component nobody was assigned to
Centers(df, feats, k, labels) ==
    [c \in 0..(k - 1) |->
        LET m == {r \in DOMAIN df.rows : labels[r] = c}
        IN [f \in ColSet(feats) |->
               IF m = {} THEN Zero
               ELSE SeriesMean([r \in m |-> FeatFloat(df.rows[r][f])])]]

label_offense(df, feats, k, labels) ==
    LET cents == Centers(df, feats, k, labels)
        names == [c \in 0..(k - 1) |-> name_offense(cents[c])]
    IN [labels |-> [r \in DOMAIN df.rows |-> names[labels[r]]],
        names  |-> names,
        cents  |-> cents]

label_defense(df, feats, k, labels) ==
    LET cents == Centers(df, feats, k, labels)
        names == [c \in 0..(k - 1) |-> name_defense(cents[c])]
    IN [labels |-> [r \in DOMAIN df.rows |-> names[labels[r]]],
        names  |-> names,
        cents  |-> cents]

\* one row of a feature table, in hundredths
FeatRow(pts, ast, three, ftr, reb, stl, blk) ==
    [f \in FeatureCols |->
        CASE f = "pts40"      -> Num(pts)
          [] f = "ast40"      -> Num(ast)
          [] f = "three_rate" -> Num(three)
          [] f = "ft_rate"    -> Num(ftr)
          [] f = "tov40"      -> Num(300)
          [] f = "reb40"      -> Num(reb)
          [] f = "stl40"      -> Num(stl)
          [] f = "blk40"      -> Num(blk)]

PlainRow == FeatRow(2500, 700, 40, 50, 900, 100, 50)

OffenseGrid ==
    {FeatRow(p, a, t, f, 900, 100, 50) :
        p \in {1000, 1900, 2200, 2500}, a \in {200, 400, 700},
        t \in {20, 25, 40, 45, 50}, f \in {10, 35, 45, 50}}

DefenseGrid ==
    {FeatRow(1000, 200, 40, 10, rb, s, b) :
        rb \in {600, 700, 800, 900, 1000, 1100}, s \in {100, 250},
        b \in {50, 100, 160, 200}}

\* the player and team columns of a feature table, in row order
Ident(player, team) == [player |-> player, team |-> team]

Roster ==
    <<Ident("B. Stewart", "Liberty"), Ident("A. Wilson", "Aces"),
      Ident("C. Gray", "Aces")>>

Frame(cols, rs) ==
    [cols |-> cols,
     ids  |-> [r \in DOMAIN rs |-> Roster[r]],
     rows |-> [r \in DOMAIN rs |-> [f \in cols |-> rs[r][f]]]]

\* tables as build_rolling_features hands them over: every column, finite
PipelineFrames ==
    {Frame(FeatureCols, rs) :
        rs \in UNION {{<<p>>, <<p, PlainRow>>} : p \in OffenseGrid \cup DefenseGrid}}

\* tables a caller may pass to the predict functions directly
DirtyRows ==
    {PlainRow} \cup
    {[PlainRow EXCEPT ![f] = c] :
        f \in FeatureCols, c \in {PosInf, NegInf, Blank}}

CallFrames ==
    {Frame(cols, rs) :
        cols \in {FeatureCols, FeatureCols \ {"tov40"}, FeatureCols \ {"blk40"}},
        rs \in UNION {{<<d>>, <<d, PlainRow>>} : d \in DirtyRows}}

\* three-player tables in every row order, for the report
Idents ==
    {Ident("B. Stewart", "Liberty"), Ident("A. Wilson", "Aces"),
     Ident("C. Gray", "Aces"), Ident("S. Ionescu", "Liberty")}

ReportFrames ==
    {[Frame(FeatureCols, <<PlainRow, FeatRow(1000, 200, 50, 10, 1100, 100, 50),
                           FeatRow(1900, 400, 25, 50, 600, 250, 160)>>)
         EXCEPT !.ids = ids] :
        ids \in {q \in [1..3 -> Idents] :
                    \A a, b \in 1..3 : a # b => q[a] # q[b]}}

TrainCases ==
    {[mode |-> "pipeline", N |-> n, off_k |-> co, def_k |-> cd] :
        n \in 1..MaxTrain, co \in {1, 2, 5, 10}, cd \in {1, 4}}

DefaultTrain == [mode |-> "pipeline", N |-> 16, off_k |-> 5, def_k |-> 4]

DefaultFrame == Frame(FeatureCols, <<PlainRow, FeatRow(1000, 200, 50, 10, 1100, 100, 50)>>)

RoleRest ==
    /\ IoIdle
    /\ rep = <<>>
    /\ pred = <<>>
    /\ lab = <<>>
    /\ logs = <<>>
    /\ win = 0
    /\ out = <<>>
    /\ fpc = "idle"

\* fit_roles.py and then infer_roles_today.py
InitPipeline ==
    /\ \/ train \in TrainCases /\ f10 = DefaultFrame
       \/ train = DefaultTrain /\ f10 \in PipelineFrames
       \/ train = DefaultTrain /\ f10 \in ReportFrames
    /\ bundle = <<>>
    /\ rpc = "fit"
    /\ RoleRest

\* the predict functions called on their own with fitted bundles
InitCall ==
    /\ train = [mode |-> "call", N |-> 16, off_k |-> 5, def_k |-> 4]
    /\ bundle = [off  |-> fit_roles(OFF_FEATURES, 5, 16),
                 def_ |-> fit_roles(DEF_FEATURES, 4, 16)]
    /\ f10 \in CallFrames
    /\ rpc = "predict"
    /\ RoleRest

InitRoles == ProjIdle /\ SuggIdle /\ (InitPipeline \/ InitCall)

\* fit_roles.py lines 11-12
Fit ==
    /\ rpc = "fit"
    /\ bundle' = [off  |-> fit_roles(OFF_FEATURES, train.off_k, train.N),
                  def_ |-> fit_roles(DEF_FEATURES, train.def_k, train.N)]
    /\ rpc' = IF bundle'.off.fitted /\ bundle'.def_.fitted
              THEN "predict" ELSE "crashed"
    /\ UNCHANGED <<train, f10, pred, lab, rep, featVars, ioVars, projVars, suggVars>>

\* infer_roles_today.py line 28
Predict ==
    /\ rpc = "predict"
    /\ \E po \in [DOMAIN f10.rows -> ProbVectors(bundle.off.k)],
          pd \in [DOMAIN f10.rows -> ProbVectors(bundle.def_.k)] :
          pred' = [off  |-> predict_roles(bundle.off, f10, po),
                   def_ |-> predict_roles(bundle.def_, f10, pd)]
    /\ rpc' = IF pred'.off.kind = "raise" \/ pred'.def_.kind = "raise"
              THEN (IF train.mode = "call" THEN "raised" ELSE "crashed")
              ELSE (IF train.mode = "call" THEN "returned" ELSE "label")
    /\ UNCHANGED <<train, bundle, f10, lab, rep, featVars, ioVars, projVars, suggVars>>

\* infer_roles_today.py lines 29-30
Label ==
    /\ rpc = "label"
    /\ lab' = [off  |-> label_offense(f10, bundle.off.features,
                                      bundle.off.k, pred.off.labs),
               def_ |-> label_defense(f10, bundle.def_.features,
                                      bundle.def_.k, pred.def_.labs)]
    /\ rpc' = "report"
    /\ UNCHANGED <<train, bundle, f10, pred, rep, featVars, ioVars, projVars, suggVars>>

\* stability: 1 for a single component, else 1 - H(p)/ln(k); the clip to
\* [1e-9, 1] and the division by the sum leave a probability vector as it
\* is, and the entropy term is kept unevaluated
stability(p) ==
    IF Cardinality(DOMAIN p) <= 1 THEN [one |-> TRUE, H |-> <<>>, Hm |-> 1]
    ELSE [one |-> FALSE, H |-> p, Hm |-> Cardinality(DOMAIN p)]

\* how sort_values compares the names that occur (by code point)
NameRank(n) ==
    CASE n = "A. Wilson" -> 1 [] n = "Aces" -> 2 [] n = "B. Stewart" -> 3
      [] n = "C. Gray" -> 4 [] n = "Liberty" -> 5 [] n = "S. Ionescu" -> 6
      [] OTHER -> 7

\* one row of rep before the sort (report.py 6-13)
ReportRow(id, po, pd, names_off, names_def) ==
    [player           |-> id.player,
     team             |-> id.team,
     off_p            |-> po,
     def_p            |-> pd,
     off_primary_idx  |-> ArgMax(po),
     off_primary_role |-> names_off[ArgMax(po)],
     def_primary_idx  |-> ArgMax(pd),
     def_primary_role |-> names_def[ArgMax(pd)],
     primary_role     |-> names_off[ArgMax(po)],
     secondary_role   |-> names_def[ArgMax(pd)],
     stability        |-> stability(po)]

\* sort_values(["team","player"]): lexicographic, stable
ReportBefore(t, a, b) ==
    \/ NameRank(t[a].team) < NameRank(t[b].team)
    \/ /\ t[a].team = t[b].team
       /\ NameRank(t[a].player) < NameRank(t[b].player)
    \/ t[a].team = t[b].team /\ t[a].player = t[b].player /\ a < b

ReportPos(t, j) == 1 + Cardinality({m \in DOMAIN t : ReportBefore(t, m, j)})

SortReport(t) ==
    [p \in DOMAIN t |-> t[CHOOSE j \in DOMAIN t : ReportPos(t, j) = p]]

SortKeysOnly(t) ==
    [p \in DOMAIN t |->
        [t[p] EXCEPT !.player = SortReport(t)[p].player,
                     !.team   = SortReport(t)[p].team]]

make_report_keys_only(df, probs_off, names_off, probs_def, names_def) ==
    SortKeysOnly([r \in DOMAIN df.rows |->
                     ReportRow(df.ids[r], probs_off[r], probs_def[r],
                               names_off, names_def)])

make_report(df, probs_off, names_off, probs_def, names_def) ==
    SortReport([r \in DOMAIN df.rows |->
                   ReportRow(df.ids[r], probs_off[r], probs_def[r],
                             names_off, names_def)])

\* infer_roles_today.py line 17
Report ==
    /\ rpc = "report"
    /\ rep' = make_report(f10, pred.off.probs, lab.off.names,
                          pred.def_.probs, lab.def_.names)
    /\ rpc' = "done"
    /\ UNCHANGED <<train, bundle, f10, pred, lab, featVars, ioVars, projVars, suggVars>>

NextRoles == Fit \/ Predict \/ Label \/ Report

SpecRoles == InitRoles /\ [][NextRoles]_vars

\* what the scoring is stated to see of one cell: zero for a column the
\* table lacks and for an infinite or undefined value
StatedScore(df, r, f) ==
    IF f \notin df.cols THEN Zero
    ELSE IF df.rows[r][f].t # "num" THEN Zero
    ELSE Rat(df.rows[r][f].v, 100)

ScoredAsStated(p, b) ==
    /\ p.kind = "ok"
    /\ DOMAIN p.probs = DOMAIN f10.rows
    /\ DOMAIN p.labs = DOMAIN f10.rows
    /\ \A r \in DOMAIN f10.rows :
          /\ p.labs[r] \in 0..(b.k - 1)
          /\ \A f \in ColSet(b.features) : p.X[r][f] = StatedScore(f10, r, f)

\* C16: predicting never fails on a table that lacks feature columns (they
\* count as zero), infinite and undefined values are scored as zero, and a
\* probability vector and a hard assignment come back for every row.
C16_PredictTotal ==
    pred # <<>> =>
        /\ ScoredAsStated(pred.off, bundle.off)
        /\ ScoredAsStated(pred.def_, bundle.def_)

StatedK(c, n) ==
    LET floor == IF n \div 8 > 2 THEN n \div 8 ELSE 2
    IN IF c < floor THEN c ELSE floor

\* C17: both fits use k = min(c, max(2, N // 8)) components for a configured
\* count c and N training players; c = 10 with N = 12 gives k = 2.
C17_ComponentCount ==
    bundle # <<>> =>
        /\ bundle.off.k = StatedK(train.off_k, train.N)
        /\ bundle.def_.k = StatedK(train.def_k, train.N)
        /\ (train.off_k = 10 /\ train.N = 12 => bundle.off.k = 2)
        /\ bundle.off.k <= train.off_k
        /\ bundle.def_.k <= train.def_k

C17_Witness ==
    /\ rpc = "predict"
    /\ train.mode = "pipeline"
    /\ train.off_k = 10
    /\ train.N = 12
    /\ bundle.off.k = 2

\* the rules as stated, each with its name, in their order
OffOrder == <<"Shooter", "Driver/Slasher", "Facilitator", "Primary Scorer",
              "Combo Guard">>

OffRule(c) ==
    [n \in ColSet(OffOrder) |->
        CASE n = "Shooter" ->
                 /\ FGt(c["three_rate"], Rat(45, 100))
                 /\ FGt(Rat(4, 1), c["ast40"])
                 /\ FGt(Rat(35, 100), c["ft_rate"])
          [] n = "Driver/Slasher" ->
                 FGt(c["ft_rate"], Rat(45, 100)) /\ FGt(c["pts40"], Rat(18, 1))
          [] n = "Facilitator" ->
                 FGt(c["ast40"], Rat(6, 1)) /\ FGt(Rat(20, 1), c["pts40"])
          [] n = "Primary Scorer" ->
                 /\ FGt(c["pts40"], Rat(22, 1))
                 /\ \/ FGt(Rat(25, 100), c["three_rate"])
                    \/ FGt(c["ft_rate"], Rat(45, 100))
          [] n = "Combo Guard" ->
                 FGt(c["three_rate"], Rat(35, 100)) /\ FGt(c["ast40"], Rat(5, 1))]

DefOrder == <<"Rim Protector", "Boarding Big", "Point of Attack">>

DefRule(c) ==
    [n \in ColSet(DefOrder) |->
        CASE n = "Rim Protector" ->
                 FGt(c["blk40"], Rat(16, 10)) /\ FGt(c["reb40"], Rat(8, 1))
          [] n = "Boarding Big" ->
                 FGt(c["reb40"], Rat(10, 1)) /\ FGt(One, c["blk40"])
          [] n = "Point of Attack" ->
                 FGt(c["stl40"], Rat(2, 1)) /\ FGt(Rat(7, 1), c["reb40"])]

\* the first name in the order whose rule holds, else the fallback
FirstMatch(order, holds, fallback) ==
    LET hits == {j \in DOMAIN order : holds[order[j]]}
    IN IF hits = {} THEN fallback
       ELSE order[CHOOSE j \in hits : \A m \in hits : j <= m]

LabelledAsStated(l, p, order, fallback, off) ==
    /\ \A c \in DOMAIN l.names :
          l.names[c] = FirstMatch(order,
                                  IF off THEN OffRule(l.cents[c])
                                  ELSE DefRule(l.cents[c]),
                                  fallback)
    /\ \A r \in DOMAIN f10.rows : l.labels[r] = l.names[p.labs[r]]

\* C18: every centroid gets the first name whose rule it satisfies in the
\* fixed order (Balanced Wing / Team Defender when none does), and a player's
\* label is the name of the centroid of the component the player was
\* assigned to; a centroid with three_rate 0.5, ast40 2, ft_rate 0.1 is a
\* Shooter.
C18_FirstMatchingRule ==
    lab # <<>> =>
        /\ LabelledAsStated(lab.off, pred.off, OffOrder, "Balanced Wing", TRUE)
        /\ LabelledAsStated(lab.def_, pred.def_, DefOrder, "Team Defender", FALSE)
        /\ \A c \in DOMAIN lab.off.cents :
              (/\ lab.off.cents[c]["three_rate"] = Rat(1, 2)
               /\ lab.off.cents[c]["ast40"] = Rat(2, 1)
               /\ lab.off.cents[c]["ft_rate"] = Rat(1, 10))
              => lab.off.names[c] = "Shooter"

C18_Witness ==
    /\ rpc = "done"
    /\ \E r \in DOMAIN f10.rows :
          LET c == pred.off.labs[r]
          IN /\ lab.off.cents[c]["three_rate"] = Rat(1, 2)
             /\ lab.off.cents[c]["ast40"] = Rat(2, 1)
             /\ lab.off.cents[c]["ft_rate"] = Rat(1, 10)
             /\ lab.off.labels[r] = "Shooter"

\* ---------------------------------------------------------------------
\* Rolling features: features.py, build_rolling_features
\* ---------------------------------------------------------------------

\* most games of one player in the log
MaxGames == 6

StatCols == {"pts", "reb", "ast", "stl", "blk", "tov", "fga", "fg3a", "fta"}

Per40Cols == {"pts40", "reb40", "ast40", "stl40", "blk40", "tov40",
              "fga40", "fg3a40", "fta40"}

RolledCols == Per40Cols \cup {"three_rate", "ft_rate", "min"}

\* the counting stat behind a per-40 column
StatOf(c) ==
    CASE c = "pts40" -> "pts" [] c = "reb40" -> "reb" [] c = "ast40" -> "ast"
      [] c = "stl40" -> "stl" [] c = "blk40" -> "blk" [] c = "tov40" -> "tov"
      [] c = "fga40" -> "fga" [] c = "fg3a40" -> "fg3a" [] c = "fta40" -> "fta"

\* ordering of the player names, as sort_values compares them
PlayerRank(p) ==
    CASE p = "A. Wilson" -> 1 [] p = "B. Stewart" -> 2 [] OTHER -> 3

\* dropna(subset=["date","player","team","min"]) after to_datetime
Kept(df) ==
    LET keep == {j \in DOMAIN df :
                    df[j].date.t = "num" /\ df[j].min.t \notin {"nan", "none"}}
        Pos(j) == Cardinality({m \in keep : m <= j})
    IN [p \in 1..Cardinality(keep) |-> df[CHOOSE j \in keep : Pos(j) = p]]

\* sort_values(["player","date"]): a stable lexicographic sort
Before(df, a, b) ==
    LET ra == PlayerRank(df[a].player)
        rb == PlayerRank(df[b].player)
    IN \/ ra < rb
       \/ ra = rb /\ df[a].date.v < df[b].date.v
       \/ ra = rb /\ df[a].date.v = df[b].date.v /\ a < b

SortValues(df) ==
    LET Rank(j) == 1 + Cardinality({m \in DOMAIN df : Before(df, m, j)})
    IN [p \in DOMAIN df |-> df[CHOOSE j \in DOMAIN df : Rank(j) = p]]

\* df["min"].replace(0, np.nan) and the like
NonZero(x) == IF ~x.nan /\ x.n = 0 THEN NaN ELSE x

\* per40 for one game row
per40(row) ==
    LET m   == NonZero(CellFloat(row.min))
        fga == NonZero(CellFloat(row.fga))
    IN [c \in RolledCols |->
           CASE c = "three_rate" -> FDiv(CellFloat(row.fg3a), fga)
             [] c = "ft_rate"    -> FDiv(CellFloat(row.fta), fga)
             [] c = "min"        -> CellFloat(row.min)
             [] OTHER -> FMul(FDiv(CellFloat(row[StatOf(c)]), m), Rat(40, 1))]

\* min_periods=max(5,w//2)
MinPeriods(w) == IF w \div 2 > 5 THEN w \div 2 ELSE 5

\* x.rolling(w, min_periods).mean() of column c at row t of group g
RollingMean(g, w, t, c) ==
    LET lo   == IF t - w + 1 > 1 THEN t - w + 1 ELSE 1
        obs  == {j \in lo..t : ~per40(g[j])[c].nan}
    IN IF Cardinality(obs) < MinPeriods(w) THEN NaN
       ELSE FDiv(FSum([j \in obs |-> per40(g[j])[c]]),
                 Rat(Cardinality(obs), 1))

\* roll(df, w), row t: the rolled columns with that row's player, team, date
roll(g, w, t) ==
    [vals   |-> [c \in RolledCols |-> RollingMean(g, w, t, c)],
     player |-> g[t].player,
     team   |-> g[t].team,
     date   |-> g[t].date.v]

\* the rows of g that dropna(subset=["pts40","reb40","ast40"]) keeps
Defined(g, w) ==
    {t \in DOMAIN g :
        \A c \in {"pts40", "reb40", "ast40"} : ~RollingMean(g, w, t, c).nan}

FinishNoClip(r) ==
    [r EXCEPT !.vals =
        [c \in RolledCols |-> IF r.vals[c].nan THEN Zero ELSE r.vals[c]]]

\* .replace([inf,-inf], nan).fillna(0), then clip(0, 1.5) of the two rates
Finish(r) ==
    [r EXCEPT !.vals =
        [c \in RolledCols |->
            LET v == IF r.vals[c].nan THEN Zero ELSE r.vals[c]
            IN IF c \in {"three_rate", "ft_rate"}
               THEN (IF FGt(Zero, v) THEN Zero
                     ELSE IF FGt(v, Rat(3, 2)) THEN Rat(3, 2) ELSE v)
               ELSE v]]

\* the players of a sorted table in order of first appearance
GroupKeys(df) ==
    LET firsts == {j \in DOMAIN df :
                      \A m \in 1..(j - 1) : df[m].player # df[j].player}
        Pos(j) == Cardinality({m \in firsts : m <= j})
    IN [p \in 1..Cardinality(firsts) |->
           df[CHOOSE j \in firsts : Pos(j) = p].player]

Group(df, p) ==
    LET idx == {j \in DOMAIN df : df[j].player = p}
        Pos(j) == Cardinality({m \in idx : m <= j})
    IN [q \in 1..Cardinality(idx) |-> df[CHOOSE j \in idx : Pos(j) = q]]

LastDefinedFirst(g, w) == CHOOSE t \in Defined(g, w) : \A u \in Defined(g, w) : u >= t

\* r.iloc[-1]
LastDefined(g, w) == CHOOSE t \in Defined(g, w) : \A u \in Defined(g, w) : u <= t

\* last(df, w)
last(df, w) ==
    LET keys  == GroupKeys(df)
        have  == {q \in DOMAIN keys : Defined(Group(df, keys[q]), w) # {}}
        Pos(q) == Cardinality({m \in have : m <= q})
    IN [p \in 1..Cardinality(have) |->
           LET g == Group(df, keys[CHOOSE q \in have : Pos(q) = p])
           IN Finish(roll(g, w, LastDefined(g, w)))]

build_rolling_features(df, w) == last(SortValues(Kept(df)), w)

\* one row of player_game_log
Game(type, d, player, team) ==
    [date   |-> IF type = "undated" THEN Blank ELSE Num(d),
     player |-> player,
     team   |-> team,
     min    |-> IF type = "zero_min" THEN Num(0) ELSE Num(20),
     pts    |-> IF type = "pts_blank" THEN Blank ELSE Num(10 + d),
     reb    |-> IF type = "reb_blank" THEN Blank ELSE Num(5),
     ast    |-> Num(3),
     stl    |-> Num(1),
     blk    |-> Num(1),
     tov    |-> Num(2),
     fga    |-> Num(10),
     fg3a   |-> Num(4),
     fta    |-> Num(5)]

GameTypes == {"valid", "zero_min", "pts_blank", "reb_blank", "undated"}

\* game histories of one player: at most two games that are not plain
Histories ==
    UNION {{h \in [1..n -> GameTypes] :
               Cardinality({j \in 1..n : h[j] # "valid"}) <= 2} :
           n \in 0..MaxGames}

Reverse(q) == [j \in DOMAIN q |-> q[Len(q) + 1 - j]]

\* the sheet: the games of A. Wilson (traded to the Liberty before day
\* trade, if trade > 0) and five plain games of B. Stewart
Sheet(h, trade, rev) ==
    LET a == [j \in DOMAIN h |->
                 Game(h[j], j, "A. Wilson",
                      IF trade > 0 /\ j >= trade THEN "Liberty" ELSE "Aces")]
        b == [j \in 1..5 |-> Game("valid", j, "B. Stewart", "Liberty")]
    IN IF rev THEN Reverse(a \o b) ELSE a \o b

\* a sheet kept in date order with no trade, or one with the newest rows
\* on top and a trade before day 3
Layouts == {[trade |-> 0, rev |-> FALSE], [trade |-> 3, rev |-> TRUE]}

\* window widths; the scripts pass 10 and 20
Windows == {5, 10}

RolesIdle ==
    /\ rep = <<>>
    /\ train = <<>>
    /\ bundle = <<>>
    /\ f10 = <<>>
    /\ pred = <<>>
    /\ lab = <<>>
    /\ rpc = "idle"

\* shooting lines of A. Wilson that differ from the plain 4 of 10 with 5
\* free throws: no field-goal attempt at all, few attempts and many free
\* throws, a negative correction entered as free throws
Profiles == {"no_fga", "ft_heavy", "negative"}

Reshoot(sheet, profile) ==
    [j \in DOMAIN sheet |->
        IF sheet[j].player # "A. Wilson" THEN sheet[j]
        ELSE [sheet[j] EXCEPT
                 !.fga  = IF profile = "no_fga" THEN Num(0)
                          ELSE IF profile = "ft_heavy" THEN Num(2) ELSE @,
                 !.fg3a = IF profile = "no_fga" THEN Num(0)
                          ELSE IF profile = "ft_heavy" THEN Num(2) ELSE @,
                 !.fta  = IF profile = "ft_heavy" THEN Num(8)
                          ELSE IF profile = "negative" THEN Num(-5) ELSE @]]

PlainHistories == {[j \in 1..n |-> "valid"] : n \in 5..MaxGames}

InitFeat ==
    /\ ProjIdle
    /\ SuggIdle
    /\ RolesIdle
    /\ IoIdle
    /\ \/ \E h \in Histories, lay \in Layouts :
             logs = Sheet(h, lay.trade, lay.rev)
       \/ \E h \in PlainHistories, lay \in Layouts, pr \in Profiles :
             logs = Reshoot(Sheet(h, lay.trade, lay.rev), pr)
    /\ win \in Windows
    /\ out = <<>>
    /\ fpc = "build"

\* build_rolling_features for one window width
Build ==
    /\ fpc = "build"
    /\ out' = build_rolling_features(logs, win)
    /\ fpc' = "done"
    /\ UNCHANGED <<logs, win, roleVars, ioVars, projVars, suggVars>>

SpecFeat == InitFeat /\ [][Build]_vars

\* the games of a player that stay in the log, and the last w of them up
\* to day d
GamesOf(p) ==
    {j \in DOMAIN logs :
        /\ logs[j].player = p
        /\ logs[j].date.t = "num"
        /\ logs[j].min.t \notin {"nan", "none"}}

LastGames(p, d, w) ==
    {j \in GamesOf(p) :
        /\ logs[j].date.v <= d
        /\ Cardinality({m \in GamesOf(p) :
               logs[m].date.v > logs[j].date.v /\ logs[m].date.v <= d}) < w}

ValidGame(j) ==
    /\ logs[j].min.t = "num" /\ logs[j].min.v # 0
    /\ logs[j].pts.t = "num"
    /\ logs[j].reb.t = "num"
    /\ logs[j].ast.t = "num"

StatedFloor(w) == IF w \div 2 > 5 THEN w \div 2 ELSE 5

LogPlayers == {logs[j].player : j \in DOMAIN logs}

\* C19: a date of a player yields a row only if the player's last w games
\* up to that date contain at least max(5, w // 2) valid games (non-zero
\* minutes, defined points, rebounds and assists); a player with fewer valid
\* games than the floor has no row.
C19_WindowFloor ==
    fpc = "done" =>
        /\ \A r \in DOMAIN out :
              Cardinality({j \in LastGames(out[r].player, out[r].date, win) :
                              ValidGame(j)}) >= StatedFloor(win)
        /\ \A p \in LogPlayers :
              Cardinality({j \in GamesOf(p) : ValidGame(j)}) < StatedFloor(win)
              => \A r \in DOMAIN out : out[r].player # p

\* a statistic is observed in a game with non-zero minutes and a value
Observed(j, stat) ==
    /\ logs[j].min.t = "num" /\ logs[j].min.v # 0
    /\ logs[j][stat].t = "num"

\* the days of a player on which each of points, rebounds and assists has
\* at least the floor of observations among the last w games
FloorDays(p) ==
    {logs[j].date.v : j \in
        {j \in GamesOf(p) :
            \A stat \in {"pts", "reb", "ast"} :
                Cardinality({m \in LastGames(p, logs[j].date.v, win) :
                                Observed(m, stat)}) >= StatedFloor(win)}}

MaxOf(S) == CHOOSE x \in S : \A y \in S : y <= x

C30_ComponentsWithinPlayers ==
    (bundle # <<>> /\ train.mode = "pipeline") =>
        /\ 1 <= bundle.off.k /\ bundle.off.k <= train.N
        /\ 1 <= bundle.def_.k /\ bundle.def_.k <= train.N

\* C29: a centroid named Shooter satisfies no later offense rule; a centroid
\* with ft_rate > 0.45 and pts40 > 22 is a Driver/Slasher, so Primary Scorer
\* goes only to centroids with pts40 > 22, three_rate < 0.25 and
\* ft_rate <= 0.45; at most one defense rule holds for a centroid.
C29_RuleExclusivity ==
    lab # <<>> =>
        /\ \A c \in DOMAIN lab.off.cents :
              LET cen == lab.off.cents[c]
              IN /\ lab.off.names[c] = "Shooter" =>
                        \A n \in ColSet(OffOrder) \ {"Shooter"} : ~OffRule(cen)[n]
                 /\ (FGt(cen["ft_rate"], Rat(45, 100)) /\ FGt(cen["pts40"], Rat(22, 1)))
                        => lab.off.names[c] = "Driver/Slasher"
                 /\ lab.off.names[c] = "Primary Scorer" =>
                        /\ FGt(cen["pts40"], Rat(22, 1))
                        /\ FGt(Rat(25, 100), cen["three_rate"])
                        /\ FGe(Rat(45, 100), cen["ft_rate"])
        /\ \A c \in DOMAIN lab.def_.cents :
              Cardinality({n \in ColSet(DefOrder) : DefRule(lab.def_.cents[c])[n]}) <= 1

C29_Witness ==
    /\ rpc = "done"
    /\ \E c \in DOMAIN lab.off.cents :
          /\ FGt(lab.off.cents[c]["ft_rate"], Rat(45, 100))
          /\ FGt(lab.off.cents[c]["pts40"], Rat(22, 1))
          /\ FGt(Rat(25, 100), lab.off.cents[c]["three_rate"])
          /\ lab.off.names[c] = "Driver/Slasher"
          /\ \E r \in DOMAIN f10.rows : pred.off.labs[r] = c

C21_FiniteAndClipped ==
    fpc = "done" =>
        \A r \in DOMAIN out :
            /\ \A c \in RolledCols : ~out[r].vals[c].nan
            /\ \A c \in {"three_rate", "ft_rate"} :
                  /\ FGe(out[r].vals[c], Zero)
                  /\ FGe(Rat(3, 2), out[r].vals[c])
            /\ (\A j \in GamesOf(out[r].player) :
                    logs[j].fga.t = "num" /\ logs[j].fga.v = 0)
               => /\ out[r].vals["three_rate"] = Zero
                  /\ out[r].vals["ft_rate"] = Zero

C21_Witness ==
    /\ fpc = "done"
    /\ \E r \in DOMAIN out :
          /\ out[r].player = "A. Wilson"
          /\ \A j \in GamesOf("A. Wilson") : logs[j].fga.v = 0
          /\ out[r].vals["three_rate"] = Zero
          /\ out[r].vals["ft_rate"] = Zero
          /\ FGt(out[r].vals["pts40"], Zero)

\* the names the two labelers can give
RoleNames ==
    {"Shooter", "Driver/Slasher", "Facilitator", "Primary Scorer",
     "Combo Guard", "Balanced Wing", "Rim Protector", "Boarding Big",
     "Point of Attack", "Team Defender"}

\* C23: the report has exactly one row per input player, in ascending
\* (team, player) order; the probabilities, primary_role (name of the
\* player's most probable offense component), secondary_role (the same for
\* defense) and stability of a row are those of the player it names, and no
\* role is null.
C23_ReportRows ==
    rpc = "done" =>
        /\ Len(rep) = Len(f10.rows)
        /\ \A r \in DOMAIN f10.rows :
              \E j \in DOMAIN rep :
                 /\ rep[j].player = f10.ids[r].player
                 /\ rep[j].team = f10.ids[r].team
                 /\ \A m \in DOMAIN rep :
                       rep[m].player = rep[j].player => m = j
                 /\ rep[j].off_p = pred.off.probs[r]
                 /\ rep[j].def_p = pred.def_.probs[r]
                 /\ rep[j].primary_role = lab.off.names[pred.off.labs[r]]
                 /\ rep[j].secondary_role = lab.def_.names[pred.def_.labs[r]]
                 /\ \A c \in DOMAIN pred.off.probs[r] :
                       FGe(rep[j].off_p[rep[j].off_primary_idx],
                           pred.off.probs[r][c])
                 /\ \A c \in DOMAIN pred.def_.probs[r] :
                       FGe(rep[j].def_p[rep[j].def_primary_idx],
                           pred.def_.probs[r][c])
                 /\ rep[j].stability = stability(pred.off.probs[r])
                 /\ rep[j].primary_role \in RoleNames
                 /\ rep[j].secondary_role \in RoleNames
        /\ \A a, b \in DOMAIN rep :
              a < b =>
                 \/ NameRank(rep[a].team) < NameRank(rep[b].team)
                 \/ /\ rep[a].team = rep[b].team
                    /\ NameRank(rep[a].player) <= NameRank(rep[b].player)

\* three players handed over in an order the sort has to change, with
\* differing probabilities
C23_Witness ==
    /\ rpc = "done"
    /\ Len(rep) = 3
    /\ f10.ids[1].team = "Liberty"
    /\ f10.ids[2].team = "Aces"
    /\ rep[1].team = "Aces"
    /\ rep[1].off_p # rep[3].off_p
    /\ rep[1].primary_role # rep[3].primary_role

\* C24: the signals of a suggestion row name every threshold test that was
\* counted for its prop, so a row that suggests OVER or UNDER, which has at
\* least one counted test, never has an empty signals string.
C24_SignalsAuditable ==
    \A j \in DOMAIN sugg :
        sugg[j].suggestion \in {"OVER", "UNDER"} => sugg[j].signals # <<>>

----------------------------------------------------------------------------
(* ensure_player_game_log_tab.py and ensure_role_multipliers_tab.py:
   with_retries *)

\* largest GSHEET_RETRY_ATTEMPTS looked at (the default is 6)
MaxAttempts == 6

RETRY_CODES == {429, 500, 502, 503, 504}

\* what one call of the wrapped function can do: return, raise a gspread
\* APIError (status code of its response, 0 without a response; a retry
\* code its message carries, 0 if none) or raise something else
CallOk == [kind |-> "ok", code |-> 0, msg |-> 0]
ApiError(code, msg) == [kind |-> "api", code |-> code, msg |-> msg]
OtherError == [kind |-> "other", code |-> 0, msg |-> 0]

CallOutcomes ==
    {CallOk, OtherError, ApiError(0, 0), ApiError(0, 503)}
    \cup {ApiError(c, 0) : c \in RETRY_CODES \cup {403, 404}}

\* _should_retry_apierror(e): <<do_retry, code>>, code 0 for None
_should_retry_apierror(e) ==
    IF e.kind = "api"
    THEN IF e.code \in RETRY_CODES THEN [do_retry |-> TRUE, code |-> e.code]
         ELSE IF e.msg \in RETRY_CODES THEN [do_retry |-> TRUE, code |-> e.msg]
         ELSE [do_retry |-> TRUE, code |-> 0]
    ELSE [do_retry |-> FALSE, code |-> 0]

\* one pass of the for loop with the call ending as o
LoopPass(st, o) ==
    IF o.kind = "ok"
    THEN [st EXCEPT !.calls = @ + 1, !.last = o, !.slept = FALSE,
                    !.pc = "returned"]
    ELSE IF ~_should_retry_apierror(o).do_retry
    THEN [st EXCEPT !.calls = @ + 1, !.last = o, !.slept = FALSE,
                    !.pc = "raised"]
    ELSE [st EXCEPT !.calls = @ + 1, !.last = o, !.slept = TRUE,
                    !.sleeps = @ + 1, !.i = @ + 1,
                    !.pc = IF st.i + 1 <= st.attempts THEN "loop" ELSE "final"]

\* the call after the loop
LastCall(st, o) ==
    [st EXCEPT !.calls = @ + 1, !.last = o, !.slept = FALSE,
               !.pc = IF o.kind = "ok" THEN "returned" ELSE "raised"]

RetryRest ==
    /\ ProjIdle
    /\ SuggIdle
    /\ RolesIdle
    /\ logs = <<>>
    /\ win = 0
    /\ out = <<>>
    /\ fpc = "idle"
    /\ req = <<>>
    /\ load = <<>>

\* with_retries(fn) is entered
InitRetry ==
    /\ RetryRest
    /\ \E a \in 0..MaxAttempts :
          retry = [attempts |-> a, i |-> 1, calls |-> 0, sleeps |-> 0,
                   slept |-> FALSE, last |-> CallOk,
                   pc |-> IF a >= 1 THEN "loop" ELSE "final"]

\* lines 58-67
Attempt ==
    /\ retry # <<>>
    /\ retry.pc = "loop"
    /\ \E o \in CallOutcomes : retry' = LoopPass(retry, o)
    /\ UNCHANGED <<req, load, roleVars, featVars, projVars, suggVars>>

\* line 68
FinalCall ==
    /\ retry # <<>>
    /\ retry.pc = "final"
    /\ \E o \in CallOutcomes : retry' = LastCall(retry, o)
    /\ UNCHANGED <<req, load, roleVars, featVars, projVars, suggVars>>

NextRetry == Attempt \/ FinalCall

SpecRetry == InitRetry /\ [][NextRetry]_vars

Transient(o) == o.kind = "api" /\ o.code \in RETRY_CODES

\* C25: with_retries retries only after an API error with status 429, 500,
\* 502, 503 or 504; after any other failure it has raised, without a sleep
\* and without another call to come.
C25_RetryOnlyTransient ==
    (retry # <<>> /\ retry.calls > 0 /\ retry.last.kind # "ok"
        /\ ~Transient(retry.last))
    => (retry.pc = "raised" /\ ~retry.slept)

\* C26: with_retries calls the wrapped function at most
\* GSHEET_RETRY_ATTEMPTS times, returns only after a successful call and
\* raises only after a failed one.
C26_BoundedCalls ==
    (retry # <<>> /\ retry.attempts >= 1) =>
        /\ retry.calls <= retry.attempts
        /\ retry.pc = "returned" => retry.last.kind = "ok"
        /\ retry.pc = "raised" => retry.last.kind # "ok"

----------------------------------------------------------------------------
(* run_wnba_daily.py and push_wnba_to_gsheets_v3.py: _request_json *)

\* largest value of retries looked at (the defaults are 5 and 6)
MaxRetries == 6

\* what one requests.get can do: a response with a status and a body that
\* decodes or not, or an exception (status 0)
Response(status, decodes) == [status |-> status, decodes |-> decodes]
NoResponse == Response(0, FALSE)
Responses ==
    {Response(200, TRUE), Response(200, FALSE), Response(204, FALSE),
     Response(404, FALSE), Response(500, FALSE), NoResponse}

\* one pass of the loop of run_wnba_daily._request_json: the get is outside
\* any try, so a request exception leaves the function
DailyPass(st, r) ==
    IF r = NoResponse
    THEN [st EXCEPT !.gets = @ + 1, !.xhdr = (st.i >= 2), !.pc = "raised"]
    ELSE IF r.status = 200 /\ r.decodes
    THEN [st EXCEPT !.gets = @ + 1, !.xhdr = (st.i >= 2), !.last = r,
                    !.value = "json", !.pc = "returned"]
    ELSE [st EXCEPT !.gets = @ + 1, !.xhdr = (st.i >= 2), !.last = r,
                    !.i = @ + 1,
                    !.pc = IF st.i + 1 < st.retries THEN "loop" ELSE "end"]

\* one pass of the loop of push_wnba_to_gsheets_v3._request_json: the
\* exception is logged and the loop goes on
PushPass(st, r) ==
    IF r.status = 200 /\ r.decodes
    THEN [st EXCEPT !.gets = @ + 1, !.xhdr = (st.i >= 2), !.last = r,
                    !.value = "json", !.pc = "returned"]
    ELSE [st EXCEPT !.gets = @ + 1, !.xhdr = (st.i >= 2),
                    !.last = IF r = NoResponse THEN @ ELSE r,
                    !.i = @ + 1,
                    !.pc = IF st.i + 1 < st.retries THEN "loop" ELSE "end"]

\* after the loop: last.raise_for_status() raises for a 4xx or 5xx status
\* (and fails on None when no get was made), and the function then ends
\* without a return statement; the push script raises RuntimeError
AfterLoop(st) ==
    IF st.script = "push" THEN [st EXCEPT !.pc = "raised"]
    ELSE IF st.gets = 0 \/ st.last.status >= 400 THEN [st EXCEPT !.pc = "raised"]
    ELSE [st EXCEPT !.value = "None", !.pc = "returned"]

ReqRest ==
    /\ ProjIdle
    /\ SuggIdle
    /\ RolesIdle
    /\ logs = <<>>
    /\ win = 0
    /\ out = <<>>
    /\ fpc = "idle"
    /\ retry = <<>>
    /\ load = <<>>

\* _request_json(url, params, retries) is entered
InitReq ==
    /\ ReqRest
    /\ \E sc \in {"daily", "push"}, n \in 0..MaxRetries :
          req = [script |-> sc, retries |-> n, i |-> 0, gets |-> 0,
                 xhdr |-> FALSE, last |-> NoResponse, value |-> "",
                 pc |-> IF n >= 1 THEN "loop" ELSE "end"]

Get ==
    /\ req # <<>>
    /\ req.pc = "loop"
    /\ \E r \in Responses :
          req' = IF req.script = "daily" THEN DailyPass(req, r)
                 ELSE PushPass(req, r)
    /\ UNCHANGED <<retry, load, roleVars, featVars, projVars, suggVars>>

GiveUp ==
    /\ req # <<>>
    /\ req.pc = "end"
    /\ req' = AfterLoop(req)
    /\ UNCHANGED <<retry, load, roleVars, featVars, projVars, suggVars>>

NextReq == Get \/ GiveUp

SpecReq == InitReq /\ [][NextReq]_vars

\* C27: _request_json makes at most `retries` GETs, sends the x-nba-stats
\* headers exactly from the third GET on, and whenever it has returned, it
\* returned the parsed JSON of a status-200 response that decoded.
C27_RequestJson ==
    req # <<>> =>
        /\ req.gets <= req.retries
        /\ req.gets > 0 => (req.xhdr <=> req.gets >= 3)
        /\ req.pc = "returned" =>
              /\ req.value = "json"
              /\ req.last = Response(200, TRUE)

----------------------------------------------------------------------------
(* features.py, props_model.py and sheets_only_runner.py: loading the
   required tabs *)

\* how many things a sheet lacks at most
MaxDefects == 2

LOG_COLS ==
    {"date", "player", "team", "min", "pts", "reb", "ast", "stl", "blk",
     "tov", "fga", "fg3a", "fta"}

LINE_COLS == {"player", "team", "opponent", "prop", "line"}

\* the tabs a script reads, in the order it reads them
TabsRead(script) ==
    IF script = "features" THEN <<"player_game_log">>
    ELSE <<"lines", "opponent_per100_last6", "pace_last6">>

\* a complete sheet: per tab its (normalised) column names
FullSheet(script) ==
    IF script = "features" THEN [t \in {"player_game_log"} |-> LOG_COLS]
    ELSE [t \in {"lines", "opponent_per100_last6", "pace_last6"} |->
             IF t = "lines" THEN LINE_COLS \cup {"over_odds", "under_odds", "book"}
             ELSE IF t = "pace_last6" THEN {"TEAM_NAME", "PACE"}
             ELSE {"TEAM_NAME"} \cup AllOppCols]

\* what a sheet can lack: a tab, a column, or TEAM_NAME under the name Team
Defect(tab, col, kind) == [tab |-> tab, col |-> col, kind |-> kind]

Defects(script) ==
    {Defect(t, "", "tab") : t \in DOMAIN FullSheet(script)}
    \cup (IF script = "features"
          THEN {Defect("player_game_log", c, "col") : c \in LOG_COLS}
          ELSE {Defect("lines", c, "col") : c \in LINE_COLS}
               \cup {Defect("opponent_per100_last6", "TEAM_NAME", k) :
                        k \in {"col", "alias"}}
               \cup {Defect("pace_last6", c, "col") : c \in {"TEAM_NAME", "PACE"}})

Damage(sheet, D) ==
    [t \in DOMAIN sheet \ {d.tab : d \in {e \in D : e.kind = "tab"}} |->
        (sheet[t] \ {d.col : d \in {e \in D : e.tab = t /\ e.kind # "tab"}})
        \cup (IF \E e \in D : e.tab = t /\ e.kind = "alias"
              THEN {"Team"} ELSE {})]

Sheets(script) ==
    {Damage(FullSheet(script), D) :
        D \in {E \in SUBSET Defects(script) : Cardinality(E) <= MaxDefects}}

\* how loading ended and what the message names
Aborted(named) == [pc |-> "aborted", named |-> named]
Loaded == [pc |-> "loaded", named |-> {}]

\* _read_tab / _read_sheet of every tab in turn: sh.worksheet(tab) raises
\* WorksheetNotFound(tab) for a tab the sheet lacks
AbsentTabs(script, sheet) ==
    {k \in 1..Len(TabsRead(script)) : TabsRead(script)[k] \notin DOMAIN sheet}

FirstAbsentTab(script, sheet) ==
    TabsRead(script)[CHOOSE k \in AbsentTabs(script, sheet) :
                        \A m \in AbsentTabs(script, sheet) : k <= m]

\* build_rolling_features lines 21-24
LoadFeatures(sheet) ==
    IF LOG_COLS \subseteq sheet["player_game_log"] THEN Loaded
    ELSE Aborted({"player_game_log"} \cup (LOG_COLS \ sheet["player_game_log"]))

HasTeamName(cols) == "TEAM_NAME" \in cols \/ "Team" \in cols

\* sheets_only_runner.py lines 38-50
LoadRunner(sheet) ==
    IF ~(LINE_COLS \subseteq sheet["lines"])
    THEN Aborted({"lines"} \cup (LINE_COLS \ sheet["lines"]))
    ELSE IF ~HasTeamName(sheet["opponent_per100_last6"])
    THEN Aborted({"opponent_per100_last6", "TEAM_NAME"})
    ELSE IF ~({"TEAM_NAME", "PACE"} \subseteq sheet["pace_last6"])
    THEN Aborted({"pace_last6", "TEAM_NAME", "PACE"})
    ELSE Loaded

\* props_model.py lines 52-65: lines["team"], lines["opponent"] and
\* pace[["TEAM_NAME","PACE"]] raise KeyError, the opponent tab SystemExit;
\* player, prop and line are not looked at
LoadProps(sheet) ==
    IF "team" \notin sheet["lines"] THEN Aborted({"team"})
    ELSE IF "opponent" \notin sheet["lines"] THEN Aborted({"opponent"})
    ELSE IF ~HasTeamName(sheet["opponent_per100_last6"])
    THEN Aborted({"opponent_per100_last6", "TEAM_NAME"})
    ELSE IF ~({"TEAM_NAME", "PACE"} \subseteq sheet["pace_last6"])
    THEN Aborted({"TEAM_NAME", "PACE"} \ sheet["pace_last6"])
    ELSE Loaded

LoadOutcome(script, sheet) ==
    IF AbsentTabs(script, sheet) # {}
    THEN Aborted({FirstAbsentTab(script, sheet)})
    ELSE IF script = "features" THEN LoadFeatures(sheet)
    ELSE IF script = "sheets_only_runner" THEN LoadRunner(sheet)
    ELSE LoadProps(sheet)

\* a record of lines.to_dict("records") as project_row sees it: r.get of a
\* column the tab lacks is None
SheetLine(cols) ==
    [BaseLine EXCEPT !.player = IF "player" \in cols THEN @ ELSE "",
                     !.prop   = IF "prop" \in cols THEN @ ELSE "",
                     !.line   = IF "line" \in cols THEN @ ELSE None]

LoadRest ==
    /\ ProjIdle
    /\ SuggIdle
    /\ RolesIdle
    /\ logs = <<>>
    /\ win = 0
    /\ out = <<>>
    /\ fpc = "idle"
    /\ retry = <<>>
    /\ req = <<>>

\* a script is started on a sheet
InitLoad ==
    /\ LoadRest
    /\ \E sc \in {"features", "props_model", "sheets_only_runner"} :
          \E sh \in Sheets(sc) :
             load = [script |-> sc, sheet |-> sh, pc |-> "load", named |-> {}]

\* the module-level loading and validation; props_model goes on to its loop
LoadInputs ==
    /\ load # <<>>
    /\ load.pc = "load"
    /\ load' = [load EXCEPT !.pc = LoadOutcome(load.script, load.sheet).pc,
                            !.named = LoadOutcome(load.script, load.sheet).named]
    /\ IF load.script = "props_model" /\ load'.pc = "loaded"
       THEN /\ lines' = <<SheetLine(load.sheet["lines"])>>
            /\ opp_tab' = OppSpread
            /\ pace_tab' = PaceAll
            /\ mu_opp' = ColumnMeans(OppSpread, NumCols(OppSpread))
            /\ sd_opp' = ColumnStds(OppSpread, NumCols(OppSpread))
            /\ props_league_pace' =
                  PaceMean([t \in DOMAIN PaceAll |-> CellFloat(PaceAll[t])])
            /\ pc' = "loop"
            /\ UNCHANGED <<i, rows, frame>>
       ELSE UNCHANGED projVars
    /\ UNCHANGED <<retry, req, roleVars, featVars, suggVars>>

NextLoad == LoadInputs \/ RowLoop \/ WriteCsv

SpecLoad == InitLoad /\ [][NextLoad]_vars

\* what the claim counts as required and absent
AbsentInputs(script, sheet) ==
    {t \in DOMAIN FullSheet(script) : t \notin DOMAIN sheet}
    \cup UNION {IF t = "player_game_log" THEN LOG_COLS \ sheet[t]
                ELSE IF t = "lines" THEN LINE_COLS \ sheet[t]
                ELSE IF t = "pace_last6" THEN {"TEAM_NAME", "PACE"} \ sheet[t]
                ELSE IF HasTeamName(sheet[t]) THEN {} ELSE {"TEAM_NAME"} :
                t \in DOMAIN sheet}

\* C22: when a required tab or a required column is absent, the run has
\* aborted once loading is over, with a message that names something that is
\* absent, and no output row exists.
C22_MissingInputAborts ==
    (load # <<>> /\ load.pc # "load" /\ AbsentInputs(load.script, load.sheet) # {})
    => /\ load.pc = "aborted"
       /\ load.named \cap AbsentInputs(load.script, load.sheet) # {}
       /\ rows = <<>>

====
